---- MODULE Spec2Model ----
(***************************************************************************)
(* GeoSearch API: the query/cache coordination layer.                      *)
(*                                                                         *)
(* POIService (app/services.py) reads and writes the poi table through     *)
(* the SQL of app/queries.py, caches read results in Redis through         *)
(* app/cache.py and publishes change events after each write.              *)
(* app/websocket.py keeps the WebSocket connections and their channel      *)
(* subscriptions.                                                          *)
(*                                                                         *)
(* Coordinates are integers in microdegrees (1e-6 degree); distances are   *)
(* integers in metres.  A geohash token is the sequence of its base-32     *)
(* digit values.                                                           *)
(***************************************************************************)
EXTENDS Integers, Sequences, FiniteSets, TLC

VARIABLES
    store,          \* the poi table: id -> row, for the ids that exist
    nextId,         \* the BIGSERIAL sequence of poi.id
    cache,          \* Redis: key -> [blob, ttl, age], for the keys that exist
    cache_enabled,  \* settings.cache_enabled
    req,            \* the requests in flight: request slot -> its frame
    last,           \* what the last request to return did, until the next one starts
    outages,        \* the Redis round trips that have failed so far
    active_connections, \* ConnectionManager: the sockets accepted, in order
    subscriptions,  \* ConnectionManager: channel -> its subscribers, in order
    sock,           \* socket -> the connection in that slot and its handler
    bcast,          \* the broadcast_to_channel call in progress
    rate_limit_enabled, \* settings.rate_limit_enabled
    requests,       \* RateLimitMiddleware: client id -> the times it recorded
    clock,          \* time.time(), in seconds
    forwarded,      \* the requests handed to call_next so far, in order
    response        \* what the middleware answered last

svars  == <<store, nextId, cache, cache_enabled, req, last, outages>>
wsvars == <<active_connections, subscriptions, sock, bcast>>
rlvars == <<rate_limit_enabled, requests, clock, forwarded, response>>

vars == <<svars, wsvars, rlvars>>

(***************************************************************************)
(* Bounds of the model.                                                    *)
(***************************************************************************)
\* POIs ever inserted in one behaviour (ids are never reused).
MaxId == 1
\* settings.cache_ttl_seconds, in clock ticks (configurable, 0..86400).
cache_ttl_seconds == 2
\* Redis round trips that fail in one behaviour.
MaxOutages == 1
\* RateLimitMiddleware(max_requests, window_seconds) (configurable, >= 1).
max_requests == 2
window_seconds == 2
\* The seconds one behaviour lasts, and the requests forwarded in it.
MaxClock == 3
MaxForwarded == 3

(***************************************************************************)
(* Program constants.                                                      *)
(***************************************************************************)
geohash_precision == 5
\* The test centre (Houston, TX), in microdegrees.
HoustonLat == 29760400
HoustonLon == -95369800
\* The radius limits of the nearby route, in metres.
MinRadius == 50
MaxRadius == 50000

NoneStr == "None"          \* Python None where a string is expected
NoneNum == 0 - 999999999     \* Python None where a number is expected
COALESCE(a, b, none) == IF a = none THEN b ELSE a

\* A metadata dict is the set of its <<key, type, text>> items. NoneMeta is
\* Python None where a dict is expected, EmptyMeta the dict {}.
NoneMeta  == { <<"None">> }
EmptyMeta == {}

(***************************************************************************)
(* Geohash (geohash2.encode / geohash2.neighbors).                         *)
(***************************************************************************)
Million == 1000 * 1000
LatSpan == 180 * Million
LonSpan == 360 * Million

\* The bits of the encoding, longitude first.  x and y are the offsets of
\* the point from the low end of the current interval, scaled so that the
\* interval keeps its full span: "value > mid" is "2 * offset > span".
RECURSIVE EncodeBits(_, _, _, _)
EncodeBits(x, y, even, n) ==
    IF n = 0 THEN <<>>
    ELSE IF even
         THEN LET b == IF 2 * x > LonSpan THEN 1 ELSE 0
              IN  <<b>> \o EncodeBits(2 * x - b * LonSpan, y, FALSE, n - 1)
         ELSE LET b == IF 2 * y > LatSpan THEN 1 ELSE 0
              IN  <<b>> \o EncodeBits(x, 2 * y - b * LatSpan, TRUE, n - 1)

\* Five bits make one base-32 digit, most significant bit first.
RECURSIVE BitsToDigits(_)
BitsToDigits(bits) ==
    IF Len(bits) < 5 THEN <<>>
    ELSE <<16 * bits[1] + 8 * bits[2] + 4 * bits[3] + 2 * bits[4] + bits[5]>>
         \o BitsToDigits(SubSeq(bits, 6, Len(bits)))

RECURSIVE DigitsToBits(_)
DigitsToBits(ds) ==
    IF ds = <<>> THEN <<>>
    ELSE LET d == ds[1]
         IN  <<d \div 16, (d \div 8) % 2, (d \div 4) % 2, (d \div 2) % 2, d % 2>>
             \o DigitsToBits(Tail(ds))

geohash2_encode(lat, lon, precision) ==
    BitsToDigits(EncodeBits(lon + LonSpan \div 2, lat + LatSpan \div 2,
                            TRUE, 5 * precision))

RECURSIVE Pow2(_)
Pow2(n) == IF n = 0 THEN 1 ELSE 2 * Pow2(n - 1)

\* The column (longitude) and row (latitude) number of a token's cell.
RECURSIVE BitsToIndex(_, _, _)
BitsToIndex(bits, first, acc) ==
    IF first > Len(bits) THEN acc
    ELSE BitsToIndex(bits, first + 2, 2 * acc + bits[first])

CellCol(token) == BitsToIndex(DigitsToBits(token), 1, 0)
CellRow(token) == BitsToIndex(DigitsToBits(token), 2, 0)
LonBits(precision) == (5 * precision + 1) \div 2
LatBits(precision) == (5 * precision) \div 2

RECURSIVE IndexToBits(_, _)
IndexToBits(i, n) ==
    IF n = 0 THEN <<>> ELSE IndexToBits(i \div 2, n - 1) \o <<i % 2>>

RECURSIVE Interleave(_, _)
Interleave(a, b) ==
    IF a = <<>> THEN <<>>
    ELSE <<a[1]>> \o (IF b = <<>> THEN <<>> ELSE <<b[1]>>)
         \o Interleave(Tail(a), IF b = <<>> THEN <<>> ELSE Tail(b))

CellToken(col, row, precision) ==
    BitsToDigits(Interleave(IndexToBits(col, LonBits(precision)),
                            IndexToBits(row, LatBits(precision))))

\* The eight cells around a token's cell: longitude wraps, latitude is
\* clamped to the last row.
geohash2_neighbors(token) ==
    LET p    == Len(token)
        col  == CellCol(token)
        row  == CellRow(token)
        cols == Pow2(LonBits(p))
        rows == Pow2(LatBits(p))
        clamp(r) == IF r < 0 THEN 0 ELSE IF r > rows - 1 THEN rows - 1 ELSE r
    IN  { CellToken((col + d[1]) % cols, clamp(row + d[2]), p) :
            d \in ({-1, 0, 1} \X {-1, 0, 1}) \ {<<0, 0>>} }

get_neighbors_geohash(lat, lon, precision) ==
    LET center == geohash2_encode(lat, lon, precision)
    IN  {center} \cup geohash2_neighbors(center)

(***************************************************************************)
(* The store: table poi and the SQL of app/queries.py.                     *)
(* A row is [id, name, category, lat, lon, geohash5].  Column geom is      *)
(* always ST_MakePoint(lon, lat) of the row's own lat and lon (INSERT and  *)
(* UPDATE set it from the same values), so it is read off lat and lon.     *)
(***************************************************************************)
RECURSIVE ISqrtIn(_, _, _)
ISqrtIn(n, lo, hi) ==
    IF hi - lo <= 1 THEN lo
    ELSE LET mid == (lo + hi) \div 2
         IN  IF mid * mid <= n THEN ISqrtIn(n, mid, hi) ELSE ISqrtIn(n, lo, mid)

ISqrt(n) == ISqrtIn(n, 0, 46341)

Abs(x) == IF x < 0 THEN 0 - x ELSE x

\* ST_Distance on geography, in whole metres, for points around the test
\* centre: 110.9 km per degree of latitude, 96.6 km per degree of
\* longitude at latitude 29.76, points less than 46 km apart.
ST_Distance(lat1, lon1, lat2, lon2) ==
    LET dy == (Abs(lat1 - lat2) * 1109) \div 10000
        dx == (Abs(lon1 - lon2) * 966) \div 10000
    IN  ISqrt(dx * dx + dy * dy)

ST_DWithin(lat1, lon1, lat2, lon2, radius_m) ==
    ST_Distance(lat1, lon1, lat2, lon2) <= radius_m

\* What POIOutSimple keeps of a result row.
Item(row, dist_m) ==
    [id |-> row.id, name |-> row.name, category |-> row.category,
     lat |-> row.lat, lon |-> row.lon, dist_m |-> dist_m]

\* What GET_POI_SQL and the RETURNING clauses select of a row.
Entity(row) ==
    [id |-> row.id, name |-> row.name, category |-> row.category,
     lat |-> row.lat, lon |-> row.lon, metadata |-> row.metadata]

Rows(st) == { st[i] : i \in DOMAIN st }

\* All the orders of a set of <<key, item>> pairs that a sort by key can give:
\* SQL leaves the order of rows with equal sort keys open.
RECURSIVE SortedKeyed(_)
SortedKeyed(keyed) ==
    IF keyed = {} THEN { <<>> }
    ELSE LET least == { x \in keyed : \A y \in keyed : x[1] <= y[1] }
         IN  UNION { { <<x[2]>> \o rest : rest \in SortedKeyed(keyed \ {x}) } :
                     x \in least }

LimitOffset(rows, limit, offset) ==
    SubSeq(rows, offset + 1,
           IF offset + limit < Len(rows) THEN offset + limit ELSE Len(rows))

CategoryMatches(row, category) == category = NoneStr \/ row.category = category

\* NEARBY_SQL before ORDER BY / LIMIT / OFFSET.
NearbyCandidates(st, lat, lon, radius_m, category, gh5) ==
    { Item(r, ST_Distance(r.lat, r.lon, lat, lon)) :
        r \in { r \in Rows(st) :
                  /\ r.geohash5 \in gh5
                  /\ CategoryMatches(r, category)
                  /\ ST_DWithin(r.lat, r.lon, lat, lon, radius_m) } }

DistKey(item) == item.dist_m
IdDescKey(item) == 0 - item.id
CountDescKey(c) == 0 - c.count

\* NEARBY_SQL: the result lists the query can return.
NEARBY_SQL(st, lat, lon, radius_m, category, limit, offset, gh5) ==
    { LimitOffset(rows, limit, offset) :
        rows \in SortedKeyed({ <<DistKey(x), x>> :
                    x \in NearbyCandidates(st, lat, lon, radius_m, category, gh5) }) }

\* As BBOX_SQL with ORDER BY id ASC.
BBOX_SQL_ascending(st, min_lat, min_lon, max_lat, max_lon, category, limit, offset) ==
    { LimitOffset(rows, limit, offset) :
        rows \in SortedKeyed({ <<x.id, x>> :
                    x \in { Item(r, NoneNum) :
                             r \in { r \in Rows(st) :
                                       /\ min_lat <= r.lat /\ r.lat <= max_lat
                                       /\ min_lon <= r.lon /\ r.lon <= max_lon
                                       /\ CategoryMatches(r, category) } } }) }

\* BBOX_SQL.
BBOX_SQL(st, min_lat, min_lon, max_lat, max_lon, category, limit, offset) ==
    { LimitOffset(rows, limit, offset) :
        rows \in SortedKeyed({ <<IdDescKey(x), x>> :
                    x \in { Item(r, NoneNum) :
                             r \in { r \in Rows(st) :
                                       /\ min_lat <= r.lat /\ r.lat <= max_lat
                                       /\ min_lon <= r.lon /\ r.lon <= max_lon
                                       /\ CategoryMatches(r, category) } } }) }

\* GET_POI_SQL: .first() of the result, <<>> for None.
GET_POI_SQL(st, id) == IF id \in DOMAIN st THEN <<Entity(st[id])>> ELSE <<>>

\* CAST(:metadata AS jsonb): the dict a JSON text stands for.
jsonb(text) == text[2]

\* NOW(): timestamps are counted in writes to the table; the time of a
\* statement is later than every timestamp in the table, until the count
\* is full at MaxId + 2.
NOW(st) ==
    LET seen == {0} \cup { st[i].updated_at : i \in DOMAIN st }
        m    == CHOOSE t \in seen : \A u \in seen : u <= t
    IN  IF m < MaxId + 2 THEN m + 1 ELSE MaxId + 2

\* INSERT_POI_SQL: the table after the insert; created_at and updated_at
\* take their column default NOW().
INSERT_POI_SQL(st, id, name, category, lat, lon, geohash5, metadata) ==
    (id :> [id |-> id, name |-> name, category |-> category,
            lat |-> lat, lon |-> lon, geohash5 |-> geohash5,
            metadata |-> jsonb(metadata),
            created_at |-> NOW(st), updated_at |-> NOW(st)]) @@ st

\* As UPDATE_POI_SQL with every column written from the parameters: a
\* parameter that is NULL sets its column to NULL, and created_at is set anew.
UPDATE_POI_SQL_overwrite(st, id, name, category, lat, lon, geohash5, metadata) ==
    IF id \notin DOMAIN st THEN st
    ELSE [st EXCEPT ![id] =
            [id       |-> @.id,
             name     |-> name,
             category |-> category,
             lat      |-> lat,
             lon      |-> lon,
             geohash5 |-> geohash5,
             metadata |-> IF metadata = <<>> THEN EmptyMeta ELSE jsonb(metadata),
             created_at |-> NOW(st),
             updated_at |-> NOW(st)]]

\* UPDATE_POI_SQL: the table after the update (unchanged when no row has the id).
UPDATE_POI_SQL(st, id, name, category, lat, lon, geohash5, metadata) ==
    IF id \notin DOMAIN st THEN st
    ELSE [st EXCEPT ![id] =
            [id       |-> @.id,
             name     |-> COALESCE(name, @.name, NoneStr),
             category |-> COALESCE(category, @.category, NoneStr),
             lat      |-> COALESCE(lat, @.lat, NoneNum),
             lon      |-> COALESCE(lon, @.lon, NoneNum),
             geohash5 |-> COALESCE(geohash5, @.geohash5, <<>>),
             metadata |-> IF metadata = <<>> THEN @.metadata ELSE jsonb(metadata),
             created_at |-> @.created_at,
             updated_at |-> NOW(st)]]

\* DELETE_POI_SQL: the table after the delete.
DELETE_POI_SQL(st, id) == [i \in DOMAIN st \ {id} |-> st[i]]

\* CATEGORIES_SQL: the (category, count) pairs, before ORDER BY.
CategoryCounts(st) ==
    { [name |-> c, count |-> Cardinality({ i \in DOMAIN st : st[i].category = c })] :
        c \in { st[i].category : i \in DOMAIN st } \ {NoneStr} }

CATEGORIES_SQL(st) ==
    SortedKeyed({ <<CountDescKey(c), c>> : c \in CategoryCounts(st) })

(***************************************************************************)
(* The result cache (app/cache.py) over Redis.                             *)
(* A cache entry is [blob, ttl, age]: the stored bytes, the seconds left   *)
(* before Redis expires the key and the seconds since SETEX wrote it.      *)
(* `outcome` is what the Redis round trip of the call does: "ok",          *)
(* "redis_error" (the client raises RedisError) or, for GET, "corrupt"     *)
(* (the bytes returned are not JSON).                                      *)
(* Each operator returns [exc, ...]: exc is the exception the Python       *)
(* function lets escape to its caller, "none" when it returns normally;    *)
(* cmds are the Redis commands it issued.                                  *)
(***************************************************************************)
\* orjson.dumps(payload, option=OPT_SORT_KEYS) of a dict given as its items
\* <<name, value>> in insertion order: the JSON object with the names sorted,
\* which no longer shows the order of insertion (a later item of the same name
\* replaces an earlier one, as in a dict).
orjson_dumps_sorted(payload) ==
    [n \in {payload[i][1] : i \in DOMAIN payload} |->
        LET last_i == CHOOSE i \in DOMAIN payload :
                        /\ payload[i][1] = n
                        /\ \A j \in DOMAIN payload : payload[j][1] = n => j <= i
        IN  payload[last_i][2]]

\* _stable_key: sha256 of the sorted-key JSON of the payload, taken as injective.
stable_key(prefix, payload) == <<"geosearch", prefix, orjson_dumps_sorted(payload)>>

orjson_dumps(value) == <<"json", value>>
CorruptBlob == <<"bytes">>
IsJson(blob) == blob[1] = "json"
orjson_loads(blob) == blob[2]

\* round(x, 5) of a coordinate in microdegrees.
Round5(x) == 10 * ((x + 5) \div 10)

\* round(x, 5) as the Python float it returns, <<sign bit, magnitude>>: a
\* negative x that rounds to zero gives -0.0, which orjson writes as "-0.0".
round(x) == <<x < 0, Abs(Round5(x))>>

\* == of two Python floats: the two zeros are equal.
float_eq(a, b) == a[2] = b[2] /\ (a[1] = b[1] \/ a[2] = 0)

\* As cache_get without the except clauses.
cache_get_raises(enabled, c, prefix, payload, outcome) ==
    IF ~enabled THEN [exc |-> "none", val |-> <<>>, cmds |-> {}]
    ELSE IF outcome = "redis_error"
         THEN [exc |-> "RedisError", val |-> <<>>, cmds |-> {"GET"}]
    ELSE LET key  == stable_key(prefix, payload)
             blob == IF key \notin DOMAIN c THEN <<>>
                     ELSE IF outcome = "corrupt" THEN <<CorruptBlob>>
                     ELSE <<c[key].blob>>
         IN  IF blob = <<>> THEN [exc |-> "none", val |-> <<>>, cmds |-> {"GET"}]
             ELSE IF ~IsJson(blob[1])
                  THEN [exc |-> "JSONDecodeError", val |-> <<>>, cmds |-> {"GET"}]
             ELSE [exc |-> "none", val |-> <<orjson_loads(blob[1])>>, cmds |-> {"GET"}]

\* cache_get: <<>> is None (a miss), <<v>> the cached value.
cache_get(enabled, c, prefix, payload, outcome) ==
    IF ~enabled THEN [exc |-> "none", val |-> <<>>, cmds |-> {}]
    ELSE LET key  == stable_key(prefix, payload)
             blob == IF outcome = "redis_error" \/ key \notin DOMAIN c THEN <<>>
                     ELSE IF outcome = "corrupt" THEN <<CorruptBlob>>
                     ELSE <<c[key].blob>>
         IN  IF blob = <<>> \/ ~IsJson(blob[1])
             THEN [exc |-> "none", val |-> <<>>, cmds |-> {"GET"}]
             ELSE [exc |-> "none", val |-> <<orjson_loads(blob[1])>>, cmds |-> {"GET"}]

\* As cache_set returning before the SETEX.
cache_set_skipped(enabled, c, prefix, payload, value, ttl, outcome) ==
    [exc |-> "none", ok |-> FALSE, cache |-> c, cmds |-> {}]

\* cache_set: SETEX key ttl blob (Redis rejects a ttl of 0 with an error).
cache_set(enabled, c, prefix, payload, value, ttl, outcome) ==
    LET t == IF ttl # NoneNum THEN ttl ELSE cache_ttl_seconds
    IN  IF ~enabled THEN [exc |-> "none", ok |-> FALSE, cache |-> c, cmds |-> {}]
        ELSE IF outcome = "redis_error" \/ t <= 0
             THEN [exc |-> "none", ok |-> FALSE, cache |-> c, cmds |-> {"SETEX"}]
        ELSE [exc |-> "none", ok |-> TRUE, cmds |-> {"SETEX"},
              cache |-> (stable_key(prefix, payload) :>
                           [blob |-> orjson_dumps(value), ttl |-> t, age |-> 0]) @@ c]

Without(c, keys) == [k \in DOMAIN c \ keys |-> c[k]]

\* As cache_delete with the key derived from the prefix alone.
cache_delete_prefix_key(c, prefix, payload, outcome) ==
    LET key == stable_key(prefix, <<>>)
    IN  IF outcome = "redis_error"
        THEN [exc |-> "none", ok |-> FALSE, cache |-> c, cmds |-> {"DEL"}]
        ELSE [exc |-> "none", ok |-> key \in DOMAIN c,
              cache |-> Without(c, {key}), cmds |-> {"DEL"}]

\* As cache_delete without the except clause.
cache_delete_raises(c, prefix, payload, outcome) ==
    LET key == stable_key(prefix, payload)
    IN  IF outcome = "redis_error"
        THEN [exc |-> "RedisError", ok |-> FALSE, cache |-> c, cmds |-> {"DEL"}]
        ELSE [exc |-> "none", ok |-> key \in DOMAIN c,
              cache |-> Without(c, {key}), cmds |-> {"DEL"}]

\* cache_delete: DEL key; it does not read settings.cache_enabled.
cache_delete(c, prefix, payload, outcome) ==
    LET key == stable_key(prefix, payload)
    IN  IF outcome = "redis_error"
        THEN [exc |-> "none", ok |-> FALSE, cache |-> c, cmds |-> {"DEL"}]
        ELSE [exc |-> "none", ok |-> key \in DOMAIN c,
              cache |-> Without(c, {key}), cmds |-> {"DEL"}]

\* As cache_clear_prefix_scan with the pattern "{prefix}:*", which leaves out
\* the namespace every key starts with.
cache_clear_prefix_scan_unprefixed(c, prefix, outcome) ==
    IF outcome = "redis_error"
    THEN [exc |-> "none", keys |-> {}, cmds |-> {"SCAN"}]
    ELSE [exc |-> "none", cmds |-> {"SCAN"},
          keys |-> { k \in DOMAIN c : k[1] = prefix }]

\* cache_clear_prefix, first half: scan_iter(match="geosearch:{prefix}:*").
cache_clear_prefix_scan(c, prefix, outcome) ==
    IF outcome = "redis_error"
    THEN [exc |-> "none", keys |-> {}, cmds |-> {"SCAN"}]
    ELSE [exc |-> "none", cmds |-> {"SCAN"},
          keys |-> { k \in DOMAIN c : k[1] = "geosearch" /\ k[2] = prefix }]

\* As cache_clear_prefix_delete deleting every key of the database.
cache_clear_prefix_delete_flush(c, keys, outcome) ==
    IF outcome = "redis_error"
    THEN [exc |-> "none", deleted |-> 0, cache |-> c, cmds |-> {"DEL"}]
    ELSE [exc |-> "none", deleted |-> Cardinality(DOMAIN c),
          cache |-> Without(c, DOMAIN c), cmds |-> {"DEL"}]

\* cache_clear_prefix, second half: delete(*keys), reached when keys is not empty.
cache_clear_prefix_delete(c, keys, outcome) ==
    IF outcome = "redis_error"
    THEN [exc |-> "none", deleted |-> 0, cache |-> c, cmds |-> {"DEL"}]
    ELSE [exc |-> "none", deleted |-> Cardinality(keys \cap DOMAIN c),
          cache |-> Without(c, keys), cmds |-> {"DEL"}]

\* As publish without the except clause.
publish_raises(channel, message, outcome) ==
    IF outcome = "redis_error"
    THEN [exc |-> "RedisError", sent |-> <<>>, cmds |-> {"PUBLISH"}]
    ELSE [exc |-> "none", sent |-> <<[channel |-> <<"geosearch:events:", channel>>,
                                      data |-> orjson_dumps(message)]>>,
          cmds |-> {"PUBLISH"}]

\* CachePubSub.publish: <<>> when nothing was sent.
publish(channel, message, outcome) ==
    IF outcome = "redis_error"
    THEN [exc |-> "none", sent |-> <<>>, cmds |-> {"PUBLISH"}]
    ELSE [exc |-> "none", sent |-> <<[channel |-> <<"geosearch:events:", channel>>,
                                      data |-> orjson_dumps(message)]>>,
          cmds |-> {"PUBLISH"}]

\* Redis expiry: one second passes.
Expire(c) ==
    LET live == { k \in DOMAIN c : c[k].ttl > 1 }
    IN  [k \in live |-> [c[k] EXCEPT !.ttl = @ - 1, !.age = @ + 1]]

(***************************************************************************)
(* POIService (app/services.py).                                           *)
(*                                                                         *)
(* Each request runs in its own worker thread with its own database        *)
(* session; req[p] is the frame of the request in slot p.  A request       *)
(* takes one step per blocking call: a store round trip, a Redis round     *)
(* trip or the event publish.                                              *)
(*                                                                         *)
(* Frame fields: op and args (the call), pc (the next blocking call),      *)
(* existing / rows / keys (local variables), resp (what the call returns   *)
(* or raises, once pc = "done").  The remaining fields record what         *)
(* happened for the properties below: cmds (Redis commands issued),        *)
(* faults (the calls whose Redis round trip failed), sent (the event       *)
(* published), hitAge (age of the cache entry served), queries (the         *)
(* statements sent to the store), catChanged (the                          *)
(* write changed the category counts), evicted (the prefixes of the keys   *)
(* the write deleted from the cache), solo (no other request was in        *)
(* flight at any time of this one), after (what the request that returned  *)
(* just before this one started did, when nothing else ran in between).    *)
(***************************************************************************)
Procs == {1, 2}

NoArgs ==
    [id |-> NoneNum, name |-> NoneStr, category |-> NoneStr,
     lat |-> NoneNum, lon |-> NoneNum, radius_m |-> NoneNum,
     min_lat |-> NoneNum, min_lon |-> NoneNum,
     max_lat |-> NoneNum, max_lon |-> NoneNum,
     limit |-> NoneNum, offset |-> NoneNum, metadata |-> NoneMeta]

NoResp == [exc |-> "none", cached |-> FALSE, value |-> <<>>]

\* Nothing to remember of the request that returned last.
NoLast ==
    [kind |-> "none", catChanged |-> FALSE, evicted |-> {},
     op |-> "none", id |-> NoneNum, args |-> NoArgs]

IdleFrame ==
    [op |-> "idle", pc |-> "idle", args |-> NoArgs,
     existing |-> <<>>, rows |-> <<>>, keys |-> {}, resp |-> NoResp,
     cmds |-> {}, faults |-> {}, sent |-> <<>>, hitAge |-> NoneNum,
     queries |-> 0, catChanged |-> FALSE, evicted |-> {}, solo |-> TRUE,
     after |-> NoLast]

ReadOps  == {"nearby", "bbox", "get_poi", "categories"}
WriteOps == {"create", "update", "delete"}

Active(p) == req[p].op # "idle"

\* A Redis round trip with the given outcome.
RoundTrip(outcome) ==
    /\ outcome # "ok" => outages < MaxOutages
    /\ outages' = IF outcome = "ok" THEN outages ELSE outages + 1

\* A call arrives in slot p.
Begin(p, op, args, pc0) ==
    /\ ~Active(p)
    /\ LET alone == \A q \in Procs : ~Active(q)
       IN  req' = [q \in Procs |->
                     IF q = p
                     THEN [IdleFrame EXCEPT !.op = op, !.pc = pc0, !.args = args,
                                            !.solo = alone,
                                            !.after = IF alone THEN last ELSE NoLast]
                     ELSE IF Active(q)
                     THEN [req[q] EXCEPT !.solo = FALSE, !.evicted = {},
                                         !.catChanged = FALSE]
                     ELSE req[q]]
    /\ last' = NoLast
    /\ UNCHANGED <<store, nextId, cache, cache_enabled, outages, wsvars, rlvars>>

\* The call in slot p returns resp (or raises resp.exc).
Finish(f, exc, cached, value) ==
    [f EXCEPT !.pc = "done",
              !.resp = [exc |-> exc, cached |-> cached, value |-> value]]

Prefix(op) ==
    CASE op = "nearby"     -> "nearby"
      [] op = "bbox"       -> "bbox"
      [] op = "categories" -> "categories"
      [] OTHER             -> "poi"

\* The cache_payload dict of each read, as its items in insertion order.
Payload(op, a) ==
    CASE op = "nearby" ->
           << <<"lat", round(a.lat)>>, <<"lon", round(a.lon)>>,
              <<"radius_m", a.radius_m>>, <<"category", a.category>>,
              <<"limit", a.limit>>, <<"offset", a.offset>> >>
      [] op = "bbox" ->
           << <<"min_lat", round(a.min_lat)>>, <<"min_lon", round(a.min_lon)>>,
              <<"max_lat", round(a.max_lat)>>, <<"max_lon", round(a.max_lon)>>,
              <<"category", a.category>>, <<"limit", a.limit>>,
              <<"offset", a.offset>> >>
      [] op = "categories" -> <<>>
      [] OTHER -> << <<"id", a.id>> >>

\* As ResultTtl with the ten-fold ttl of the category listing for every read.
ResultTtl_tenfold(op) == cache_ttl_seconds * 10

\* The ttl each read gives cache_set.
ResultTtl(op) ==
    IF op = "categories" THEN cache_ttl_seconds * 10 ELSE cache_ttl_seconds

\* The rows a read can get from the store on a cache miss.
StoreResults(op, a, st) ==
    CASE op = "nearby" ->
           NEARBY_SQL(st, a.lat, a.lon, a.radius_m, a.category, a.limit, a.offset,
                      get_neighbors_geohash(a.lat, a.lon, geohash_precision))
      [] op = "bbox" ->
           BBOX_SQL(st, a.min_lat, a.min_lon, a.max_lat, a.max_lon,
                    a.category, a.limit, a.offset)
      [] op = "categories" -> CATEGORIES_SQL(st)
      [] OTHER -> { GET_POI_SQL(st, a.id) }

\* As ResultValue with the count of a search left at 0.
ResultValue_uncounted(op, rows) ==
    CASE op \in {"nearby", "bbox"} -> [items |-> rows, count |-> 0]
      [] op = "categories" -> rows
      [] OTHER -> rows[1]

\* The value a read caches and returns for the rows it fetched.
ResultValue(op, rows) ==
    CASE op \in {"nearby", "bbox"} -> [items |-> rows, count |-> Len(rows)]
      [] op = "categories" -> rows
      [] OTHER -> rows[1]

----------------------------------------------------------------------------
(* The reads: nearby_search, bbox_search, get_poi, get_categories.         *)

nearby_search(p, lat, lon, radius_m, category, limit, offset) ==
    Begin(p, "nearby",
          [NoArgs EXCEPT !.lat = lat, !.lon = lon, !.radius_m = radius_m,
                         !.category = category, !.limit = limit, !.offset = offset],
          "cache_get")

\* As bbox_search rejecting a box whose minimum equals its maximum.
bbox_search_strict(p, min_lat, min_lon, max_lat, max_lon, category, limit, offset) ==
    /\ Begin(p, "bbox",
             [NoArgs EXCEPT !.min_lat = min_lat, !.min_lon = min_lon,
                            !.max_lat = max_lat, !.max_lon = max_lon,
                            !.category = category, !.limit = limit,
                            !.offset = offset],
             IF min_lat >= max_lat \/ min_lon >= max_lon THEN "invalid" ELSE "cache_get")

\* bbox_search raises ValidationError before it touches cache or store.
bbox_search(p, min_lat, min_lon, max_lat, max_lon, category, limit, offset) ==
    /\ Begin(p, "bbox",
             [NoArgs EXCEPT !.min_lat = min_lat, !.min_lon = min_lon,
                            !.max_lat = max_lat, !.max_lon = max_lon,
                            !.category = category, !.limit = limit,
                            !.offset = offset],
             IF min_lat > max_lat \/ min_lon > max_lon THEN "invalid" ELSE "cache_get")

BboxInvalid(p) ==
    /\ req[p].pc = "invalid"
    /\ req' = [req EXCEPT ![p] = Finish(@, "ValidationError", FALSE, <<>>)]
    /\ UNCHANGED <<store, nextId, cache, cache_enabled, last, outages, wsvars, rlvars>>

get_poi(p, id) == Begin(p, "get_poi", [NoArgs EXCEPT !.id = id], "cache_get")

get_categories(p) == Begin(p, "categories", NoArgs, "cache_get")

\* cached = cache_get(prefix, payload); a hit returns at once.
ReadCacheGet(p, outcome) ==
    LET f   == req[p]
        key == stable_key(Prefix(f.op), Payload(f.op, f.args))
        r   == cache_get(cache_enabled, cache, Prefix(f.op), Payload(f.op, f.args),
                         outcome)
        g   == [f EXCEPT !.cmds = @ \cup r.cmds,
                         !.faults = IF outcome = "ok" THEN @ ELSE @ \cup {<<"cache_get", outcome>>}]
    IN  /\ f.pc = "cache_get"
        /\ outcome \in {"ok", "redis_error", "corrupt"}
        /\ outcome # "ok" => cache_enabled
        /\ outcome = "corrupt" => key \in DOMAIN cache
        /\ req' = [req EXCEPT ![p] =
                     IF r.exc # "none" THEN Finish(g, r.exc, FALSE, <<>>)
                     ELSE IF r.val # <<>>
                          THEN Finish([g EXCEPT !.hitAge = cache[key].age],
                                      "none", TRUE, r.val[1])
                     ELSE [g EXCEPT !.pc = "db_query"]]
        /\ UNCHANGED <<store, nextId, cache, cache_enabled, last, wsvars, rlvars>>
        /\ RoundTrip(outcome)

\* The store query of a read that missed.
ReadDbQuery(p) ==
    LET f == [req[p] EXCEPT !.queries = @ + 1]
    IN  /\ f.pc = "db_query"
        /\ \E rows \in StoreResults(f.op, f.args, store) :
              req' = [req EXCEPT ![p] =
                        IF f.op = "get_poi" /\ rows = <<>>
                        THEN Finish(f, "POINotFoundError", FALSE, <<>>)
                        ELSE [f EXCEPT !.rows = rows, !.pc = "cache_set"]]
        /\ UNCHANGED <<store, nextId, cache, cache_enabled, last, outages, wsvars, rlvars>>

\* cache_set(prefix, payload, value, ttl), then return the fresh result.
ReadCacheSet(p, outcome) ==
    LET f == req[p]
        v == ResultValue(f.op, f.rows)
        r == cache_set(cache_enabled, cache, Prefix(f.op), Payload(f.op, f.args),
                       v, ResultTtl(f.op), outcome)
        g == [f EXCEPT !.cmds = @ \cup r.cmds,
                       !.faults = IF outcome = "ok" THEN @ ELSE @ \cup {<<"cache_set", outcome>>}]
    IN  /\ f.pc = "cache_set"
        /\ outcome \in {"ok", "redis_error"}
        /\ outcome # "ok" => cache_enabled
        /\ cache' = r.cache
        /\ req' = [req EXCEPT ![p] =
                     IF r.exc # "none" THEN Finish(g, r.exc, FALSE, <<>>)
                     ELSE Finish(g, "none", FALSE, v)]
        /\ UNCHANGED <<store, nextId, cache_enabled, last, wsvars, rlvars>>
        /\ RoundTrip(outcome)

----------------------------------------------------------------------------
(* The writes: create_poi, update_poi, delete_poi.                         *)

\* Inserts not yet executed by the creates in flight.
PendingInserts ==
    Cardinality({ q \in Procs : req[q].op = "create" /\ req[q].pc = "db_write" })

create_poi(p, name, category, lat, lon, metadata) ==
    /\ nextId + PendingInserts <= MaxId
    /\ Begin(p, "create",
             [NoArgs EXCEPT !.name = name, !.category = category,
                            !.lat = lat, !.lon = lon, !.metadata = metadata],
             "db_write")

update_poi(p, id, name, category, lat, lon, metadata) ==
    Begin(p, "update",
          [NoArgs EXCEPT !.id = id, !.name = name, !.category = category,
                         !.lat = lat, !.lon = lon, !.metadata = metadata],
          "db_select")

delete_poi(p, id) == Begin(p, "delete", [NoArgs EXCEPT !.id = id], "db_select")

\* As WriteDbSelect without the check of the row read.
WriteDbSelect_unchecked(p) ==
    LET f == [req[p] EXCEPT !.queries = @ + 1]
    IN  /\ f.pc = "db_select"
        /\ req' = [req EXCEPT ![p] =
                     [f EXCEPT !.existing = GET_POI_SQL(store, f.args.id),
                               !.pc = "db_write"]]
        /\ UNCHANGED <<store, nextId, cache, cache_enabled, last, outages, wsvars, rlvars>>

\* existing = GET_POI_SQL(id); raise POINotFoundError if there is none.
WriteDbSelect(p) ==
    LET f        == [req[p] EXCEPT !.queries = @ + 1]
        existing == GET_POI_SQL(store, f.args.id)
    IN  /\ f.pc = "db_select"
        /\ req' = [req EXCEPT ![p] =
                     IF existing = <<>>
                     THEN Finish(f, "POINotFoundError", FALSE, <<>>)
                     ELSE [f EXCEPT !.existing = existing, !.pc = "db_write"]]
        /\ UNCHANGED <<store, nextId, cache, cache_enabled, last, outages, wsvars, rlvars>>

\* The geohash5 bind parameter of update_poi: None (<<>>) unless the update
\* carries a coordinate; the other coordinate comes from the row read before.
update_geohash5(data, existing) ==
    IF data.lat # NoneNum \/ data.lon # NoneNum
    THEN geohash2_encode(COALESCE(data.lat, existing.lat, NoneNum),
                         COALESCE(data.lon, existing.lon, NoneNum),
                         geohash_precision)
    ELSE <<>>

\* orjson.dumps(data.metadata): [exc, text].  orjson raises JSONEncodeError
\* for an int beyond 64 bits and writes NaN and the infinities as null.
orjson_dumps_metadata(md) ==
    IF \E it \in md : it[2] = "int" /\ it[3] = "2^64"
    THEN [exc |-> "JSONEncodeError", text |-> <<>>]
    ELSE [exc |-> "none",
          text |-> orjson_dumps({ IF it[2] = "float" /\ it[3] \in {"nan", "inf"}
                                  THEN <<it[1], "null", "null">> ELSE it :
                                  it \in md })]

\* metadata_json of create_poi: "{}" for an empty dict.
create_metadata_json(md) ==
    IF md # EmptyMeta THEN orjson_dumps_metadata(md)
    ELSE [exc |-> "none", text |-> orjson_dumps(EmptyMeta)]

\* metadata_json of update_poi: None (<<>>) unless the update carries metadata.
update_metadata_json(md) ==
    IF md # NoneMeta THEN orjson_dumps_metadata(md)
    ELSE [exc |-> "none", text |-> <<>>]

\* The metadata bind parameter of the write in frame f.
MetadataJson(f) ==
    CASE f.op = "create" -> create_metadata_json(f.args.metadata)
      [] f.op = "update" -> update_metadata_json(f.args.metadata)
      [] OTHER           -> [exc |-> "none", text |-> <<>>]

\* The table after the statement of a write and its commit.
WriteStore(f, st, id) ==
    CASE f.op = "create" ->
           INSERT_POI_SQL(st, id, f.args.name, f.args.category, f.args.lat,
                          f.args.lon,
                          geohash2_encode(f.args.lat, f.args.lon, geohash_precision),
                          MetadataJson(f).text)
      [] f.op = "update" ->
           UPDATE_POI_SQL(st, id, f.args.name, f.args.category, f.args.lat,
                          f.args.lon, update_geohash5(f.args, f.existing[1]),
                          MetadataJson(f).text)
      [] OTHER -> DELETE_POI_SQL(st, id)

\* The INSERT / UPDATE / DELETE and its commit.  An UPDATE that matches no
\* row returns no row, and dict(row) raises TypeError after the commit.
\* Metadata that orjson cannot encode raises before the statement is sent.
WriteDb(p) ==
    LET f  == req[p]
        id == IF f.op = "create" THEN nextId ELSE f.args.id
        st == WriteStore(f, store, id)
        g  == [f EXCEPT !.queries = @ + 1,
                        !.catChanged =
                         f.solo /\ CategoryCounts(st) # CategoryCounts(store)]
    IN  /\ f.pc = "db_write"
        /\ IF MetadataJson(f).exc # "none"
           THEN /\ req' = [req EXCEPT ![p] =
                             Finish(f, MetadataJson(f).exc, FALSE, <<>>)]
                /\ UNCHANGED <<store, nextId>>
           ELSE /\ store' = st
                /\ nextId' = IF f.op = "create" THEN nextId + 1 ELSE nextId
                /\ req' = [req EXCEPT ![p] =
                     IF f.op = "delete" THEN [g EXCEPT !.pc = "cache_delete"]
                     ELSE IF id \notin DOMAIN st THEN Finish(g, "TypeError", FALSE, <<>>)
                     ELSE [g EXCEPT !.rows = <<Entity(st[id])>>,
                                    !.pc = IF f.op = "create" THEN "scan_nearby"
                                           ELSE "cache_delete"]]
        /\ UNCHANGED <<cache, cache_enabled, last, outages, wsvars, rlvars>>

\* cache_delete("poi", {"id": poi_id}) of update_poi and delete_poi.
WriteCacheDelete(p, outcome) ==
    LET f == req[p]
        r == cache_delete(cache, "poi", << <<"id", f.args.id>> >>, outcome)
        g == [f EXCEPT !.cmds = @ \cup r.cmds,
                       !.evicted = IF r.ok /\ f.solo THEN @ \cup {"poi"} ELSE @,
                       !.faults = IF outcome = "ok" THEN @ ELSE @ \cup {<<"cache_delete", outcome>>}]
    IN  /\ f.pc = "cache_delete"
        /\ outcome \in {"ok", "redis_error"}
        /\ cache' = r.cache
        /\ req' = [req EXCEPT ![p] =
                     IF r.exc # "none" THEN Finish(g, r.exc, FALSE, <<>>)
                     ELSE [g EXCEPT !.pc = "scan_nearby"]]
        /\ UNCHANGED <<store, nextId, cache_enabled, last, wsvars, rlvars>>
        /\ RoundTrip(outcome)

\* The prefixes a write clears, in order, and what follows each step.
ClearPrefix(pc) == IF pc \in {"scan_nearby", "del_nearby"} THEN "nearby" ELSE "bbox"
AfterClear(pc)  == IF pc \in {"scan_nearby", "del_nearby"} THEN "scan_bbox" ELSE "publish"
DeleteStep(pc)  == IF pc = "scan_nearby" THEN "del_nearby" ELSE "del_bbox"

\* cache_clear_prefix: keys = list(scan_iter(pattern)).
WriteScan(p, outcome) ==
    LET f == req[p]
        r == cache_clear_prefix_scan(cache, ClearPrefix(f.pc), outcome)
        g == [f EXCEPT !.cmds = @ \cup r.cmds,
                       !.faults = IF outcome = "ok" THEN @ ELSE @ \cup {<<"clear_prefix", outcome>>}]
    IN  /\ f.pc \in {"scan_nearby", "scan_bbox"}
        /\ outcome \in {"ok", "redis_error"}
        /\ req' = [req EXCEPT ![p] =
                     IF r.exc # "none" THEN Finish(g, r.exc, FALSE, <<>>)
                     ELSE IF r.keys = {} THEN [g EXCEPT !.pc = AfterClear(f.pc)]
                     ELSE [g EXCEPT !.keys = r.keys, !.pc = DeleteStep(f.pc)]]
        /\ UNCHANGED <<store, nextId, cache, cache_enabled, last, wsvars, rlvars>>
        /\ RoundTrip(outcome)

\* cache_clear_prefix: if keys: redis_client.delete(*keys).
WriteClear(p, outcome) ==
    LET f == req[p]
        r == cache_clear_prefix_delete(cache, f.keys, outcome)
        g == [f EXCEPT !.cmds = @ \cup r.cmds, !.keys = {},
                       !.evicted = IF f.solo THEN @ \cup { k[2] : k \in DOMAIN cache \ DOMAIN r.cache }
                                    ELSE @,
                       !.faults = IF outcome = "ok" THEN @ ELSE @ \cup {<<"clear_prefix", outcome>>}]
    IN  /\ f.pc \in {"del_nearby", "del_bbox"}
        /\ outcome \in {"ok", "redis_error"}
        /\ cache' = r.cache
        /\ req' = [req EXCEPT ![p] =
                     IF r.exc # "none" THEN Finish(g, r.exc, FALSE, <<>>)
                     ELSE [g EXCEPT !.pc = AfterClear(f.pc)]]
        /\ UNCHANGED <<store, nextId, cache_enabled, last, wsvars, rlvars>>
        /\ RoundTrip(outcome)

\* The change event of a write.
ChangeEvent(f) ==
    CASE f.op = "create" ->
           [event_type |-> "created", poi_id |-> f.rows[1].id, poi |-> f.rows]
      [] f.op = "update" ->
           [event_type |-> "updated", poi_id |-> f.rows[1].id, poi |-> f.rows]
      [] OTHER ->
           [event_type |-> "deleted", poi_id |-> f.args.id, poi |-> <<>>]

\* pubsub.publish("poi", event), then return the entity (True for a delete).
WritePublish(p, outcome) ==
    LET f == req[p]
        r == publish("poi", ChangeEvent(f), outcome)
        g == [f EXCEPT !.cmds = @ \cup r.cmds, !.sent = r.sent,
                       !.faults = IF outcome = "ok" THEN @ ELSE @ \cup {<<"publish", outcome>>}]
    IN  /\ f.pc = "publish"
        /\ outcome \in {"ok", "redis_error"}
        /\ req' = [req EXCEPT ![p] =
                     IF r.exc # "none" THEN Finish(g, r.exc, FALSE, <<>>)
                     ELSE Finish(g, "none", FALSE,
                                 IF f.op = "delete" THEN TRUE ELSE f.rows[1])]
        /\ UNCHANGED <<store, nextId, cache, cache_enabled, last, wsvars, rlvars>>
        /\ RoundTrip(outcome)

----------------------------------------------------------------------------
(* Store failures and the transport layer.                                 *)

\* As StoreError with the failure of a search caught inside the service
\* method and answered as a search that found nothing.
StoreError_no_rows(f, stage) ==
    LET g == [f EXCEPT !.faults = @ \cup {<<"db", stage>>}]
    IN  IF f.op \in {"nearby", "bbox", "categories"}
        THEN [g EXCEPT !.rows = <<>>, !.pc = "cache_set"]
        ELSE Finish(g, "SQLAlchemyError", FALSE, <<>>)

\* As StoreError with the failure caught and logged inside the service
\* method: a write goes on to its invalidation, a read returns nothing.
StoreError_swallowed(f, stage) ==
    LET g == [f EXCEPT !.faults = @ \cup {<<"db", stage>>}]
    IN  IF f.op \in WriteOps THEN [g EXCEPT !.pc = "scan_nearby"]
        ELSE Finish(g, "none", FALSE, <<>>)

\* self.db.execute or self.db.commit raises SQLAlchemyError: no service
\* method catches it, so it leaves the method at once.
StoreError(f, stage) ==
    Finish([f EXCEPT !.faults = @ \cup {<<"db", stage>>}],
           "SQLAlchemyError", FALSE, <<>>)

\* The store round trip of the request in slot p fails: at the statement
\* ("execute") or, for a write, at its commit ("commit").  The session is
\* rolled back (get_db), so the table keeps its rows; the sequence value an
\* INSERT drew before the failed commit stays consumed.
DbFails(p, stage) ==
    LET f == [req[p] EXCEPT !.queries = @ + 1]
    IN  /\ f.pc \in {"db_query", "db_select", "db_write"}
        /\ stage \in {"execute", "commit"}
        /\ stage = "commit" => f.pc = "db_write"
        /\ req' = [req EXCEPT ![p] = StoreError(f, stage)]
        /\ nextId' = IF f.op = "create" /\ stage = "commit" THEN nextId + 1
                     ELSE nextId
        /\ UNCHANGED <<store, cache, cache_enabled, last, outages, wsvars, rlvars>>

\* What the route and the exception handlers of the application make of
\* the exception a service method raises ("none": it returned).
http_response(exc) ==
    CASE exc = "none"             -> [status |-> 200, error |-> "none"]
      [] exc = "ValidationError"  -> [status |-> 400, error |-> "VALIDATION_ERROR"]
      [] exc = "POINotFoundError" -> [status |-> 404, error |-> "NOT_FOUND"]
      [] exc = "DatabaseError"    -> [status |-> 503, error |-> "DATABASE_ERROR"]
      [] OTHER                    -> [status |-> 500, error |-> "INTERNAL_ERROR"]

----------------------------------------------------------------------------
\* The caller takes the result; the slot is free again.
Return(p) ==
    LET f == req[p]
    IN  /\ f.pc = "done"
        /\ req' = [req EXCEPT ![p] = IdleFrame]
        /\ last' = IF f.op \in WriteOps /\ f.resp.exc = "none" /\ f.solo
                      /\ f.faults = {}
                   THEN [kind |-> "write", catChanged |-> f.catChanged,
                         evicted |-> f.evicted, op |-> f.op,
                         id |-> IF f.op = "create" THEN f.rows[1].id ELSE f.args.id,
                         args |-> f.args]
                   ELSE NoLast
        /\ UNCHANGED <<store, nextId, cache, cache_enabled, outages, wsvars, rlvars>>

\* One second passes: Redis ages and expires its keys.
Tick ==
    /\ DOMAIN cache # {}
    /\ cache' = Expire(cache)
    /\ UNCHANGED <<store, nextId, cache_enabled, req, last, outages, wsvars, rlvars>>

(***************************************************************************)
(* ConnectionManager and the /ws endpoint (app/websocket.py).              *)
(*                                                                         *)
(* The endpoint coroutines and broadcast_to_channel run on one event       *)
(* loop: a coroutine runs without interruption from one await to the       *)
(* next, and any other coroutine may run at an await.  sock[s] is the      *)
(* connection in slot s: client (the client's end: "closed", "open" or     *)
(* "gone" once it has closed or dropped), client_state (what the server    *)
(* knows of the client's end), pc (the await the endpoint coroutine is     *)
(* at, "closed" when none runs), inq (the message on its way to the        *)
(* server), handling (the client message being answered), reply (the       *)
(* message the coroutine is about to send), first (the first message the   *)
(* client got), owed (the client messages sent less the answers the        *)
(* client got), events (the broadcast messages the client got), dropped    *)
(* (the server ended the connection on an error).                          *)
(***************************************************************************)
Sockets  == {1, 2, 3}
Channels == {"poi", "alerts"}

NoMsg == <<>>

IdleSock ==
    [client |-> "closed", client_state |-> "DISCONNECTED", pc |-> "closed",
     inq |-> NoMsg, handling |-> NoMsg, reply |-> NoMsg, first |-> NoMsg,
     owed |-> 0, events |-> {}, dropped |-> FALSE]

NoBcast ==
    [pc |-> "idle", channel |-> NoneStr, message |-> NoMsg, i |-> 0,
     connection |-> 0, disconnected |-> <<>>, sent_to |-> <<>>,
     start |-> {}, left |-> {}]

Elems(seq) == { seq[i] : i \in DOMAIN seq }

\* list.remove(x): the list without the first x.
RECURSIVE list_remove(_, _)
list_remove(seq, x) ==
    IF seq = <<>> THEN <<>>
    ELSE IF Head(seq) = x THEN Tail(seq)
    ELSE <<Head(seq)>> \o list_remove(Tail(seq), x)

\* ConnectionManager.connect after the accept.
connect(ac, websocket) == Append(ac, websocket)

\* As disconnect leaving the channel lists alone.
disconnect_connections_only(ac, subs, websocket) ==
    [ac   |-> IF websocket \in Elems(ac) THEN list_remove(ac, websocket) ELSE ac,
     subs |-> subs]

\* ConnectionManager.disconnect: [ac, subs] after it.
disconnect(ac, subs, websocket) ==
    [ac   |-> IF websocket \in Elems(ac) THEN list_remove(ac, websocket) ELSE ac,
     subs |-> [c \in DOMAIN subs |->
                 IF websocket \in Elems(subs[c]) THEN list_remove(subs[c], websocket)
                 ELSE subs[c]]]

\* ConnectionManager.subscribe.
subscribe(subs, websocket, channel) ==
    LET made == IF channel \in DOMAIN subs THEN subs ELSE (channel :> <<>>) @@ subs
    IN  IF websocket \in Elems(made[channel]) THEN made
        ELSE [made EXCEPT ![channel] = Append(@, websocket)]

\* ConnectionManager.unsubscribe.
unsubscribe(subs, websocket, channel) ==
    IF channel \in DOMAIN subs /\ websocket \in Elems(subs[channel])
    THEN [subs EXCEPT ![channel] = list_remove(@, websocket)]
    ELSE subs

\* get_stats()["total_connections"].
total_connections == Len(active_connections)

\* The sockets that leave a channel or their connection while a broadcast
\* is in progress.
Leaves(b, S) == IF b.pc = "idle" THEN b ELSE [b EXCEPT !.left = @ \cup S]

----------------------------------------------------------------------------
(* The client's end of a connection.                                       *)

\* A client opens a connection to /ws.
ClientOpen(s) ==
    /\ UNCHANGED <<svars, rlvars>>
    /\ sock[s].pc = "closed"
    /\ sock' = [sock EXCEPT ![s] = [IdleSock EXCEPT !.client = "open", !.pc = "accept"]]
    /\ UNCHANGED <<active_connections, subscriptions, bcast>>

\* The client sends a message.
ClientSend(s, msg) ==
    /\ UNCHANGED <<svars, rlvars>>
    /\ sock[s].client = "open"
    /\ sock[s].inq = NoMsg
    /\ sock' = [sock EXCEPT ![s].inq = <<msg>>, ![s].owed = @ + 1]
    /\ UNCHANGED <<active_connections, subscriptions, bcast>>

\* The client closes the connection, or the network drops it.
ClientClose(s) ==
    /\ UNCHANGED <<svars, rlvars>>
    /\ sock[s].client = "open"
    /\ sock' = [sock EXCEPT ![s].client = "gone"]
    /\ bcast' = Leaves(bcast, {s})
    /\ UNCHANGED <<active_connections, subscriptions>>

----------------------------------------------------------------------------
(* websocket_endpoint and handle_message.                                  *)

\* await manager.connect(websocket): accept, then register.
WsAccept(s) ==
    /\ UNCHANGED <<svars, rlvars>>
    /\ sock[s].pc = "accept"
    /\ active_connections' = connect(active_connections, s)
    /\ sock' = [sock EXCEPT ![s].pc = "welcome", ![s].client_state = "CONNECTED",
                            ![s].reply = <<[type |-> "connected", channel |-> NoneStr]>>]
    /\ UNCHANGED <<subscriptions, bcast>>

\* send_personal_message: the message reaches the client unless the client
\* is gone; a failing send is logged and swallowed.
send_personal_message(k, message) ==
    IF k.client_state = "CONNECTED" /\ k.client = "open"
    THEN [k EXCEPT !.first = IF @ = NoMsg THEN <<message>> ELSE @,
                   !.owed  = IF k.handling # NoMsg THEN @ - 1 ELSE @]
    ELSE k

\* The await of send_personal_message: the welcome or a reply is sent and the
\* coroutine goes on to receive.
WsSend(s) ==
    /\ UNCHANGED <<svars, rlvars>>
    /\ sock[s].pc \in {"welcome", "reply"}
    /\ sock' = [sock EXCEPT ![s] =
                  [send_personal_message(@, @.reply[1]) EXCEPT
                     !.reply = NoMsg, !.handling = NoMsg, !.pc = "receive"]]
    /\ UNCHANGED <<active_connections, subscriptions, bcast>>

\* data.get("channel", "poi").
channel_of(data) == IF data.channel = NoneStr THEN "poi" ELSE data.channel

\* handle_message up to its send: [subs, reply].
handle_message(subs, websocket, data) ==
    CASE data.type = "subscribe" ->
           [subs  |-> subscribe(subs, websocket, channel_of(data)),
            reply |-> <<[type |-> "subscribed", channel |-> channel_of(data)]>>]
      [] data.type = "unsubscribe" ->
           [subs  |-> unsubscribe(subs, websocket, channel_of(data)),
            reply |-> <<[type |-> "unsubscribed", channel |-> channel_of(data)]>>]
      [] data.type = "ping" ->
           [subs |-> subs, reply |-> <<[type |-> "pong", channel |-> NoneStr]>>]
      [] OTHER ->
           [subs |-> subs, reply |-> <<[type |-> "error", channel |-> NoneStr]>>]

\* The connection of slot s ends: the except clauses of websocket_endpoint
\* (error: the coroutine raised while the client was there).
WsEnd(s, error) ==
    LET d == disconnect(active_connections, subscriptions, s)
    IN  /\ active_connections' = d.ac
        /\ subscriptions' = d.subs
        /\ sock' = [sock EXCEPT ![s] = [IdleSock EXCEPT !.dropped = error]]
        /\ bcast' = Leaves(bcast, {s})

\* await websocket.receive_json() returns a message of the client, which is
\* handled up to the send of its reply; a message that is not a JSON object
\* raises (JSONDecodeError in receive_json, AttributeError at data.get) and
\* ends the connection.
WsReceive(s) ==
    /\ UNCHANGED <<svars, rlvars>>
    /\ sock[s].pc = "receive"
    /\ sock[s].inq # NoMsg
    /\ LET data == sock[s].inq[1]
           h    == handle_message(subscriptions, s, data)
       IN  IF data.shape # "object"
           THEN WsEnd(s, sock[s].client = "open")
           ELSE /\ subscriptions' = h.subs
                /\ sock' = [sock EXCEPT ![s].inq = NoMsg, ![s].reply = h.reply,
                                        ![s].handling = <<data>>,
                                        ![s].pc = "reply"]
                /\ bcast' = IF data.type = "unsubscribe"
                            THEN Leaves(bcast, {s}) ELSE bcast
                /\ UNCHANGED active_connections

\* receive_json raises WebSocketDisconnect: the client is gone and what it
\* sent before has been received.
WsDisconnect(s) ==
    /\ UNCHANGED <<svars, rlvars>>
    /\ sock[s].pc = "receive"
    /\ sock[s].client = "gone"
    /\ sock[s].inq = NoMsg
    /\ WsEnd(s, FALSE)

\* receive_json times out after 60 seconds: a keep-alive ping is sent.
WsTimeout(s) ==
    /\ UNCHANGED <<svars, rlvars>>
    /\ sock[s].pc = "receive"
    /\ sock' = [sock EXCEPT ![s].reply = <<[type |-> "ping", channel |-> NoneStr]>>,
                            ![s].pc = "reply"]
    /\ UNCHANGED <<active_connections, subscriptions, bcast>>

----------------------------------------------------------------------------
(* broadcast_to_channel and broadcast_poi_event.                           *)

\* The for loop of broadcast_to_channel from position b.i of the channel's
\* list up to its next await: it stops at the next socket whose client_state
\* is CONNECTED (pc "send"), or at the end of the list (pc "cleanup").
RECURSIVE NextConnection(_, _, _)
NextConnection(b, sockets, k) ==
    IF b.i >= Len(sockets) THEN [b EXCEPT !.pc = "cleanup", !.connection = 0]
    ELSE LET connection == sockets[b.i + 1]
             c == [b EXCEPT !.i = @ + 1]
         IN  IF k[connection].client_state = "CONNECTED"
             THEN [c EXCEPT !.pc = "send", !.connection = connection]
             ELSE NextConnection(c, sockets, k)

\* The clean-up loop of broadcast_to_channel and broadcast.
RECURSIVE disconnect_all(_, _, _)
disconnect_all(ac, subs, disconnected) ==
    IF disconnected = <<>> THEN [ac |-> ac, subs |-> subs]
    ELSE LET d == disconnect(ac, subs, Head(disconnected))
         IN  disconnect_all(d.ac, d.subs, Tail(disconnected))

\* The broadcast goes on from b: to its next send, or through the clean-up
\* to its return.
BroadcastGoesOn(b) ==
    LET n == NextConnection(b, subscriptions[b.channel], sock)
        d == disconnect_all(active_connections, subscriptions, n.disconnected)
    IN  IF n.pc = "send"
        THEN /\ bcast' = n
             /\ UNCHANGED <<active_connections, subscriptions>>
        ELSE /\ bcast' = [n EXCEPT !.pc = "done"]
             /\ active_connections' = d.ac
             /\ subscriptions' = d.subs

\* broadcast_to_channel(channel, message) is called.
broadcast_to_channel(channel, message) ==
    /\ UNCHANGED <<svars, rlvars>>
    /\ bcast.pc = "idle"
    /\ channel \in DOMAIN subscriptions
    /\ BroadcastGoesOn([NoBcast EXCEPT
          !.channel = channel, !.message = message,
          !.start = { s \in Elems(subscriptions[channel]) : sock[s].client = "open" }])
    /\ UNCHANGED sock

\* broadcast_to_channel on a channel nobody ever subscribed to returns at once.
broadcast_to_no_channel(channel, message) ==
    /\ UNCHANGED <<svars, rlvars>>
    /\ bcast.pc = "idle"
    /\ channel \notin DOMAIN subscriptions
    /\ UNCHANGED wsvars

\* await connection.send_json(message) of the loop: the message reaches the
\* client ("delivered"); or the client is gone and the send raises ("raised")
\* or is lost without an error ("dropped").
BroadcastSend(outcome) ==
    LET s == bcast.connection
        b == CASE outcome = "delivered" -> [bcast EXCEPT !.sent_to = Append(@, s)]
               [] outcome = "raised"    -> [bcast EXCEPT !.disconnected = Append(@, s)]
               [] OTHER                 -> bcast
    IN  /\ UNCHANGED <<svars, rlvars>>
        /\ bcast.pc = "send"
        /\ outcome \in {"delivered", "raised", "dropped"}
        /\ (outcome = "delivered") = (sock[s].client = "open")
        /\ sock' = IF outcome = "delivered"
                   THEN [sock EXCEPT ![s].events = @ \cup {bcast.message}]
                   ELSE sock
        /\ BroadcastGoesOn(b)

\* broadcast_to_channel has returned.
BroadcastReturn ==
    /\ UNCHANGED <<svars, rlvars>>
    /\ bcast.pc = "done"
    /\ bcast' = NoBcast
    /\ UNCHANGED <<active_connections, subscriptions, sock>>

\* The message of broadcast_poi_event.
poi_event(event_type, poi_id) ==
    <<[type |-> CASE event_type = "created" -> "poi_created"
                  [] event_type = "updated" -> "poi_updated"
                  [] OTHER                  -> "poi_deleted",
       poi_id |-> poi_id]>>

broadcast_poi_event(event_type, poi_id) ==
    \/ broadcast_to_channel("poi", poi_event(event_type, poi_id)[1])
    \/ broadcast_to_no_channel("poi", poi_event(event_type, poi_id)[1])

(***************************************************************************)
(* RateLimitMiddleware.                                                    *)
(*                                                                         *)
(* A request is what the middleware reads of it: its path, the X-API-Key   *)
(* header (api_key), the X-Forwarded-For header (forwarded_for) and        *)
(* request.client.host (host).  A text is the sequence of its characters;  *)
(* an address counts as one character, <<>> is a header that is absent or  *)
(* empty, and the X-Forwarded-For header is the sequence of its            *)
(* comma-separated parts, each with the blanks around its address.         *)
(***************************************************************************)
NoClient == <<>>       \* request.client is None

HealthPaths == {"/health", "/health/live", "/health/ready"}

\* text[:n]
Slice(text, n) == SubSeq(text, 1, IF Len(text) < n THEN Len(text) ELSE n)

\* part.strip()
strip(part) == part.text

\* RateLimitMiddleware._get_client_id.
get_client_id(request) ==
    IF request.api_key # <<>> THEN <<"key:">> \o Slice(request.api_key, 8)
    ELSE IF request.forwarded_for # <<>>
         THEN <<"ip:">> \o strip(request.forwarded_for[1])
    ELSE <<"ip:">> \o (IF request.host = NoClient THEN <<"unknown">>
                        ELSE request.host)

\* [t for t in times if current_time - t < window_seconds]
RECURSIVE Recent(_, _)
Recent(times, current_time) ==
    IF times = <<>> THEN <<>>
    ELSE IF current_time - Head(times) < window_seconds
         THEN <<Head(times)>> \o Recent(Tail(times), current_time)
         ELSE Recent(Tail(times), current_time)

NoResponse ==
    [status |-> 0, client_id |-> <<>>, time |-> 0, retry_after |-> NoneNum,
     limit |-> NoneNum, remaining |-> NoneNum, reset |-> NoneNum]

InitLimiter ==
    /\ requests = <<>>
    /\ clock = 0
    /\ forwarded = <<>>
    /\ response = NoResponse

\* call_next(request): the request reaches the application, which answers 200.
call_next(request, client_id, limited) ==
    /\ Len(forwarded) < MaxForwarded
    /\ forwarded' = Append(forwarded, [client_id |-> client_id, time |-> clock,
                                       path |-> request.path, limited |-> limited])

\* As dispatch with a request over the limit recorded like the others.
dispatch_recording_rejected(request) ==
    LET client_id == get_client_id(request)
        kept      == IF client_id \in DOMAIN requests
                     THEN Recent(requests[client_id], clock) ELSE <<>>
        recorded  == Append(kept, clock)
    IN  /\ UNCHANGED <<svars, wsvars, rate_limit_enabled, clock>>
        /\ IF ~rate_limit_enabled \/ request.path \in HealthPaths
           THEN /\ call_next(request, client_id, FALSE)
                /\ response' = [NoResponse EXCEPT !.status = 200, !.time = clock]
                /\ UNCHANGED requests
           ELSE IF Len(kept) >= max_requests
           THEN /\ requests' = (client_id :> recorded) @@ requests
                /\ response' = [NoResponse EXCEPT
                                  !.status = 429, !.client_id = client_id,
                                  !.time = clock, !.retry_after = window_seconds]
                /\ UNCHANGED forwarded
           ELSE /\ requests' = (client_id :> recorded) @@ requests
                /\ call_next(request, client_id, TRUE)
                /\ response' = [NoResponse EXCEPT
                                  !.status = 200, !.client_id = client_id,
                                  !.time = clock, !.limit = max_requests,
                                  !.remaining = max_requests - Len(recorded),
                                  !.reset = clock + window_seconds]

\* RateLimitMiddleware.dispatch.  With the limiter disabled and on the
\* health paths the request goes straight to call_next.  Otherwise the times
\* of the client older than the window are dropped; with max_requests times
\* left the answer is 429, without call_next and without a new time; else
\* the time is recorded and the request goes to call_next, whose response
\* gets the X-RateLimit headers (call_next is taken to return before the
\* next request arrives).
dispatch(request) ==
    LET client_id == get_client_id(request)
        kept      == IF client_id \in DOMAIN requests
                     THEN Recent(requests[client_id], clock) ELSE <<>>
        recorded  == Append(kept, clock)
    IN  /\ UNCHANGED <<svars, wsvars, rate_limit_enabled, clock>>
        /\ IF ~rate_limit_enabled \/ request.path \in HealthPaths
           THEN /\ call_next(request, client_id, FALSE)
                /\ response' = [NoResponse EXCEPT !.status = 200, !.time = clock]
                /\ UNCHANGED requests
           ELSE IF Len(kept) >= max_requests
           THEN /\ requests' = (client_id :> kept) @@ requests
                /\ response' = [NoResponse EXCEPT
                                  !.status = 429, !.client_id = client_id,
                                  !.time = clock, !.retry_after = window_seconds]
                /\ UNCHANGED forwarded
           ELSE /\ requests' = (client_id :> recorded) @@ requests
                /\ call_next(request, client_id, TRUE)
                /\ response' = [NoResponse EXCEPT
                                  !.status = 200, !.client_id = client_id,
                                  !.time = clock, !.limit = max_requests,
                                  !.remaining = max_requests - Len(recorded),
                                  !.reset = clock + window_seconds]

\* A second passes.
ClockTick ==
    /\ clock < MaxClock
    /\ clock' = clock + 1
    /\ UNCHANGED <<svars, wsvars, rate_limit_enabled, requests, forwarded, response>>

(***************************************************************************)
(* The inputs and the specifications.                                      *)
(***************************************************************************)
Names      == {"Test Cafe"}
Categories == {"cafe", "restaurant"}
Outcomes   == {"ok", "redis_error", "corrupt"}

\* A second latitude and longitude: 0.2 degrees (22 km) north and 0.1
\* degrees (10 km) east of the test centre.
FarLat   == HoustonLat + 200000
OtherLon == HoustonLon + 100000

\* houston_bbox of the tests.
BoxMinLat == 29730000
BoxMinLon == 0 - 95400000
BoxMaxLat == 29790000
BoxMaxLon == 0 - 95330000

Ids == 1 .. MaxId

\* The application after start-up: an empty table, an empty cache, nobody
\* connected.
InitApp ==
    /\ store = <<>>
    /\ nextId = 1
    /\ cache = <<>>
    /\ cache_enabled \in BOOLEAN
    /\ req = [p \in Procs |-> IdleFrame]
    /\ last = NoLast
    /\ outages = 0
    /\ active_connections = <<>>
    /\ subscriptions = <<>>
    /\ sock = [s \in Sockets |-> IdleSock]
    /\ bcast = NoBcast

Init == InitApp /\ InitLimiter /\ rate_limit_enabled = TRUE

\* The blocking calls of the request in slot p; outs are the outcomes the
\* Redis round trips can have.
ReadStep(p, outs) ==
    \/ \E outcome \in outs : ReadCacheGet(p, outcome)
    \/ ReadDbQuery(p)
    \/ \E outcome \in outs : ReadCacheSet(p, outcome)

WriteStep(p, outs) ==
    \/ WriteDbSelect(p)
    \/ WriteDb(p)
    \/ \E outcome \in outs : WriteCacheDelete(p, outcome)
    \/ \E outcome \in outs : WriteScan(p, outcome)
    \/ \E outcome \in outs : WriteClear(p, outcome)
    \/ \E outcome \in outs : WritePublish(p, outcome)

Step(p, outs) == BboxInvalid(p) \/ ReadStep(p, outs) \/ WriteStep(p, outs) \/ Return(p)

\* The calls of the cache-coherence scenarios: every POI at the test centre.
WriteCall(p) ==
    \/ create_poi(p, "Test Cafe", "cafe", HoustonLat, HoustonLon, EmptyMeta)
    \/ \E id \in Ids : update_poi(p, id, NoneStr, "restaurant", NoneNum, NoneNum, NoneMeta)
    \/ \E id \in Ids : delete_poi(p, id)

ResultCall(p) ==
    \/ nearby_search(p, HoustonLat, HoustonLon, 1000, NoneStr, 50, 0)
    \/ bbox_search(p, BoxMinLat, BoxMinLon, BoxMaxLat, BoxMaxLon, NoneStr, 100, 0)
    \/ \E id \in Ids : get_poi(p, id)

ReadCall(p) ==
    \/ ResultCall(p)
    \/ bbox_search(p, BoxMinLat, BoxMinLon, BoxMinLat - 1, BoxMaxLon, NoneStr, 100, 0)
    \/ get_categories(p)

\* One request at a time, Redis healthy, no key old enough to expire.
Next == WriteCall(1) \/ ReadCall(1) \/ Step(1, {"ok"})

Spec == Init /\ [][Next]_vars

\* The calls on the first POI: it is created once, then read, changed and
\* deleted.
FirstWrite(p) ==
    \/ nextId = 1 /\ create_poi(p, "Test Cafe", "cafe", HoustonLat, HoustonLon, EmptyMeta)
    \/ update_poi(p, 1, NoneStr, "restaurant", NoneNum, NoneNum, NoneMeta)
    \/ delete_poi(p, 1)

FirstResult(p) ==
    \/ nearby_search(p, HoustonLat, HoustonLon, 1000, NoneStr, 50, 0)
    \/ bbox_search(p, BoxMinLat, BoxMinLon, BoxMaxLat, BoxMaxLon, NoneStr, 100, 0)
    \/ get_poi(p, 1)

\* One request at a time; Redis round trips may fail.
NextFaults ==
    \/ FirstWrite(1) \/ FirstResult(1) \/ get_categories(1)
    \/ ReadStep(1, Outcomes) \/ WriteStep(1, Outcomes) \/ Return(1)

SpecFaults == Init /\ [][NextFaults]_vars

\* A writer and a reader, in any interleaving of their blocking calls,
\* while time passes.
NextConc ==
    \/ FirstWrite(1) \/ WriteStep(1, {"ok"}) \/ Return(1)
    \/ FirstResult(2) \/ ReadStep(2, {"ok"}) \/ Return(2)
    \/ Tick

SpecConc == Init /\ [][NextConc]_vars
\* Two writers of the same POI: slot 1 creates it, moves it north and reads
\* around the centre; slot 2 moves it east.
NextRace ==
    \/ nextId = 1 /\ create_poi(1, "Test Cafe", "cafe", HoustonLat, HoustonLon, EmptyMeta)
    \/ update_poi(1, 1, NoneStr, NoneStr, FarLat, NoneNum, NoneMeta)
    \/ update_poi(2, 1, NoneStr, NoneStr, NoneNum, OtherLon, NoneMeta)
    \/ nearby_search(1, HoustonLat, HoustonLon, 1000, NoneStr, 50, 0)
    \/ \E p \in Procs : WriteStep(p, {"ok"}) \/ Return(p)
    \/ ReadStep(1, {"ok"})

SpecRace == Init /\ [][NextRace]_vars

\* One request at a time: POIs at the centre and 22 km north of it, nearby
\* searches around the centre with the smallest, the default and the
\* largest radius the route accepts.
NextGeo ==
    \/ \E lat \in {HoustonLat, FarLat}, category \in Categories :
          create_poi(1, "Test Cafe", category, lat, HoustonLon, EmptyMeta)
    \/ \E id \in Ids : delete_poi(1, id)
    \/ \E radius_m \in {MinRadius, 1000, MaxRadius}, category \in {NoneStr, "cafe"} :
          nearby_search(1, HoustonLat, HoustonLon, radius_m, category, 50, 0)
    \/ ReadStep(1, {"ok"}) \/ WriteStep(1, {"ok"}) \/ Return(1)

SpecGeo == Init /\ [][NextGeo]_vars

\* One request at a time on the first POI, Redis healthy, the store failing
\* at any of its round trips.
NextStore ==
    \/ FirstWrite(1) \/ FirstResult(1) \/ get_categories(1)
    \/ ReadStep(1, {"ok"}) \/ WriteStep(1, {"ok"}) \/ Return(1)
    \/ \E stage \in {"execute", "commit"} : DbFails(1, stage)

SpecStore == Init /\ [][NextStore]_vars

\* Metadata dicts a client can post: none, a rating, a NaN score and an
\* id beyond 64 bits.
Metadatas ==
    { EmptyMeta, { <<"rating", "int", "45">> }, { <<"score", "float", "nan">> },
      { <<"osm_id", "int", "2^64">> } }

\* One request at a time: POIs created with and without category and
\* metadata, fetched by id, searched for and deleted.
NextRoundTrip ==
    \/ \E name \in Names, category \in {"cafe", NoneStr}, metadata \in Metadatas :
          create_poi(1, name, category, HoustonLat, HoustonLon, metadata)
    \/ \E id \in Ids : get_poi(1, id) \/ delete_poi(1, id)
    \/ nearby_search(1, HoustonLat, HoustonLon, 1000, NoneStr, 50, 0)
    \/ ReadStep(1, {"ok"}) \/ WriteStep(1, {"ok"}) \/ Return(1)

SpecRoundTrip == Init /\ [][NextRoundTrip]_vars

\* One request at a time around the equator: searches whose latitudes lie
\* four microdegrees south and north of it, a POI on it.
NextKey ==
    \/ \E name \in Names : create_poi(1, name, "cafe", 0, HoustonLon, EmptyMeta)
    \/ \E id \in Ids : delete_poi(1, id)
    \/ \E lat \in {0 - 4, 0, 4} :
          nearby_search(1, lat, HoustonLon, 1000, NoneStr, 50, 0)
    \/ \E min_lat \in {0 - 4, 4} :
          bbox_search(1, min_lat, HoustonLon - 1000, 1000, HoustonLon + 1000,
                      NoneStr, 50, 0)
    \/ ReadStep(1, {"ok"}) \/ WriteStep(1, {"ok"}) \/ Return(1)

SpecKey == Init /\ [][NextKey]_vars

\* Boxes <<min_lat, min_lon, max_lat, max_lon>> around the test centre: the
\* test box, the centre as a box of no extent, a box of no height, and boxes
\* with the latitudes, the longitudes or both the wrong way round.
Boxes ==
    { <<BoxMinLat, BoxMinLon, BoxMaxLat, BoxMaxLon>>,
      <<HoustonLat, HoustonLon, HoustonLat, HoustonLon>>,
      <<HoustonLat, BoxMinLon, HoustonLat, BoxMaxLon>>,
      <<BoxMaxLat, BoxMinLon, BoxMinLat, BoxMaxLon>>,
      <<BoxMinLat, BoxMaxLon, BoxMaxLat, BoxMinLon>>,
      <<BoxMaxLat, BoxMaxLon, BoxMinLat, BoxMinLon>> }

\* One request at a time: a POI at the test centre created and deleted,
\* bounding-box searches over Boxes.
NextBox ==
    \/ \E name \in Names : create_poi(1, name, "cafe", HoustonLat, HoustonLon, EmptyMeta)
    \/ \E id \in Ids : delete_poi(1, id)
    \/ \E b \in Boxes : bbox_search(1, b[1], b[2], b[3], b[4], NoneStr, 100, 0)
    \/ Step(1, {"ok"})

SpecBox == Init /\ [][NextBox]_vars

\* The table after two POIs were created at the test centre.
PairStore ==
    LET gh == geohash2_encode(HoustonLat, HoustonLon, geohash_precision)
        md == orjson_dumps(EmptyMeta)
    IN  INSERT_POI_SQL(
          INSERT_POI_SQL(<<>>, 1, "Test Cafe", "cafe", HoustonLat, HoustonLon, gh, md),
          2, "Test Cafe", "cafe", HoustonLat, HoustonLon, gh, md)

InitPair ==
    /\ store = PairStore
    /\ nextId = 3
    /\ cache = <<>>
    /\ cache_enabled \in BOOLEAN
    /\ req = [p \in Procs |-> IdleFrame]
    /\ last = NoLast
    /\ outages = 0
    /\ active_connections = <<>>
    /\ subscriptions = <<>>
    /\ sock = [s \in Sockets |-> IdleSock]
    /\ bcast = NoBcast
    /\ InitLimiter /\ rate_limit_enabled = TRUE

\* One request at a time on the two POIs: searches around the centre for all
\* results or for a page of one (the first at offset 0, the second at offset
\* 1), a search of the test box, either POI renamed or deleted.
NextOrder ==
    \/ \E limit \in {1, 50} :
          nearby_search(1, HoustonLat, HoustonLon, 1000, NoneStr, limit, 0)
    \/ nearby_search(1, HoustonLat, HoustonLon, 1000, NoneStr, 1, 1)
    \/ bbox_search(1, BoxMinLat, BoxMinLon, BoxMaxLat, BoxMaxLon, NoneStr, 100, 0)
    \/ \E id \in {1, 2} : update_poi(1, id, "Cafe", NoneStr, NoneNum, NoneNum, NoneMeta)
    \/ \E id \in {1, 2} : delete_poi(1, id)
    \/ ReadStep(1, {"ok"}) \/ WriteStep(1, {"ok"}) \/ Return(1)

SpecOrder == InitPair /\ [][NextOrder]_vars

\* One request at a time: a POI two microdegrees north of the test centre,
\* searched for with and without a category filter in boxes whose southern
\* edge lies one microdegree south or two microdegrees north of it (both
\* edges round to the same fifth decimal).
NextFilter ==
    \/ \E category \in Categories :
          create_poi(1, "Test Cafe", category, HoustonLat + 2, HoustonLon, EmptyMeta)
    \/ \E id \in Ids : delete_poi(1, id)
    \/ \E category \in {NoneStr, "cafe"} :
          nearby_search(1, HoustonLat, HoustonLon, 1000, category, 50, 0)
    \/ \E min_lat \in {HoustonLat + 1, HoustonLat + 4}, category \in {NoneStr, "cafe"} :
          bbox_search(1, min_lat, BoxMinLon, BoxMaxLat, BoxMaxLon, category, 100, 0)
    \/ ReadStep(1, {"ok"}) \/ WriteStep(1, {"ok"}) \/ Return(1)

SpecFilter == Init /\ [][NextFilter]_vars

\* What a client sends: JSON objects with a type and, for some, a channel
\* (NoneStr: no "channel" key), a JSON array and text that is not JSON.
ClientMessages ==
    { [shape |-> "object", type |-> "subscribe", channel |-> c] :
        c \in {NoneStr, "alerts"} }
    \cup { [shape |-> "object", type |-> t, channel |-> NoneStr] :
             t \in {"unsubscribe", "ping", "unknown_type"} }
    \cup { [shape |-> sh, type |-> NoneStr, channel |-> NoneStr] :
             sh \in {"array", "text"} }

\* The subscription to the default channel.
SubscribePoi == [shape |-> "object", type |-> "subscribe", channel |-> NoneStr]

\* The steps of the endpoint coroutine of slot s, but for the time-out.
WsStep(s) ==
    \/ WsAccept(s) \/ WsSend(s) \/ WsReceive(s) \/ WsDisconnect(s)

\* Clients that connect and leave: the first sends any message and may stay
\* silent for a minute, the second subscribes to the default channel.
NextWs ==
    \/ \E s \in {1, 2} : ClientOpen(s) \/ ClientClose(s) \/ WsStep(s)
    \/ \E msg \in ClientMessages : ClientSend(1, msg)
    \/ ClientSend(2, SubscribePoi)
    \/ WsTimeout(1)

InitWs == Init /\ cache_enabled

\* Socket s is connected, subscribed to the channel and waiting to receive.
Listening(s, channel) ==
    /\ sock[s].client = "open" /\ sock[s].pc = "receive"
    /\ channel \in DOMAIN subscriptions /\ s \in Elems(subscriptions[channel])

\* A client connects and subscribes to channel "poi" for good; while it
\* listens, the first POI is created, read, changed and deleted.  Nothing in the
\* application calls broadcast_poi_event or reads the Redis channel the
\* writes publish to.
NextEvents ==
    \/ ClientOpen(1) \/ ClientSend(1, SubscribePoi)
    \/ WsAccept(1) \/ WsSend(1) \/ WsReceive(1)
    \/ Listening(1, "poi") /\ FirstWrite(1)
    \/ FirstResult(1)
    \/ ReadStep(1, {"ok"}) \/ WriteStep(1, {"ok"}) \/ Return(1)

SpecEvents == InitWs /\ [][NextEvents]_vars

UnsubscribePoi == [shape |-> "object", type |-> "unsubscribe", channel |-> NoneStr]

\* Two clients connect and subscribe to channel "poi"; the first may
\* unsubscribe and leave, the second stays, while the creation of POI 1 is
\* broadcast to the channel.
NextBroadcast ==
    \/ \E s \in {1, 2} : ClientOpen(s) \/ WsStep(s) \/ ClientSend(s, SubscribePoi)
    \/ ClientSend(1, UnsubscribePoi) \/ ClientClose(1)
    \/ broadcast_poi_event("created", 1)
    \/ \E outcome \in {"delivered", "raised", "dropped"} : BroadcastSend(outcome)
    \/ BroadcastReturn

SpecBroadcast == InitWs /\ [][NextBroadcast]_vars

\* Three clients connect and subscribe to channel "poi" and stay; the first
\* may unsubscribe and subscribe again while the creation of POI 1 is
\* broadcast.  What is sent to one socket arrives in the order it was sent
\* in: the endpoint's answer to a client does not overtake the broadcast's
\* send to the same client.
NextResubscribe ==
    \/ \E s \in Sockets :
          \/ ClientOpen(s) \/ WsAccept(s) \/ WsReceive(s)
          \/ ClientSend(s, SubscribePoi)
          \/ bcast.connection # s /\ WsSend(s)
    \/ ClientSend(1, UnsubscribePoi)
    \/ broadcast_poi_event("created", 1)
    \/ BroadcastSend("delivered")
    \/ BroadcastReturn

SpecResubscribe == InitWs /\ [][NextResubscribe]_vars

\* Two API keys that agree in their first eight characters, and two addresses.
Key1 == <<"a", "b", "c", "d", "e", "f", "g", "h", "1">>
Key2 == <<"a", "b", "c", "d", "e", "f", "g", "h", "2">>
Addr1 == <<"10.0.0.1">>
Addr2 == <<"10.0.0.2">>

\* What clients send: a search with either key, one through a proxy that
\* names the second address (X-Forwarded-For: " 10.0.0.2, 10.0.0.1"), one
\* from the second address itself, one without a client address, and a
\* health check with the first key.
LimiterRequests ==
    LET search == [path |-> "/v1/pois/nearby", api_key |-> <<>>,
                   forwarded_for |-> <<>>, host |-> Addr1]
    IN  { [search EXCEPT !.api_key = Key1], [search EXCEPT !.api_key = Key2],
          [search EXCEPT !.forwarded_for =
              << [blanks |-> 1, text |-> Addr2], [blanks |-> 1, text |-> Addr1] >>],
          [search EXCEPT !.host = Addr2],
          [search EXCEPT !.host = NoClient],
          [search EXCEPT !.path = "/health", !.api_key = Key1] }

\* Requests arrive at the middleware one after the other while time passes.
NextLimit ==
    \/ \E request \in LimiterRequests : dispatch(request)
    \/ ClockTick

InitLimit == InitApp /\ InitLimiter /\ cache_enabled /\ rate_limit_enabled \in BOOLEAN

SpecLimit == InitLimit /\ [][NextLimit]_vars

\* Writers of one POI side by side: slot 1 creates it and renames it,
\* either slot deletes it, and slot 2 reads around it.
NextDelete ==
    \/ nextId = 1 /\ create_poi(1, "Test Cafe", "cafe", HoustonLat, HoustonLon, EmptyMeta)
    \/ update_poi(1, 1, "Renamed", NoneStr, NoneNum, NoneNum, NoneMeta)
    \/ \E p \in Procs : delete_poi(p, 1)
    \/ nearby_search(2, HoustonLat, HoustonLon, 1000, NoneStr, 50, 0)
    \/ \E p \in Procs : WriteStep(p, {"ok"}) \/ Return(p)
    \/ ReadStep(2, {"ok"})

SpecDelete == Init /\ [][NextDelete]_vars

\* Partial updates of the second of two stored POIs, one request at a time,
\* with a search in between: each field alone, and both coordinates.
PartialUpdates ==
    { [NoArgs EXCEPT !.name = "Renamed"], [NoArgs EXCEPT !.category = "restaurant"],
      [NoArgs EXCEPT !.lat = FarLat], [NoArgs EXCEPT !.lon = OtherLon],
      [NoArgs EXCEPT !.metadata = { <<"rating", "int", "45">> }],
      [NoArgs EXCEPT !.lat = HoustonLat, !.lon = HoustonLon] }

NextUpdate ==
    \/ \E d \in PartialUpdates :
          update_poi(1, 2, d.name, d.category, d.lat, d.lon, d.metadata)
    \/ nearby_search(1, HoustonLat, HoustonLon, 1000, NoneStr, 50, 0)
    \/ ReadStep(1, {"ok"}) \/ WriteStep(1, {"ok"}) \/ Return(1)

SpecUpdate == InitPair /\ [][NextUpdate]_vars

SpecWs == InitWs /\ [][NextWs]_vars

(***************************************************************************)
(* Properties.                                                             *)
(***************************************************************************)

\* What a call returns or raises when it is answered from the store st alone.
DirectOutcomes(op, a, st) ==
    IF op = "bbox" /\ (a.min_lat > a.max_lat \/ a.min_lon > a.max_lon)
    THEN { [exc |-> "ValidationError", value |-> <<>>] }
    ELSE IF op = "get_poi" /\ GET_POI_SQL(st, a.id) = <<>>
    THEN { [exc |-> "POINotFoundError", value |-> <<>>] }
    ELSE { [exc |-> "none", value |-> ResultValue(op, rows)] :
             rows \in StoreResults(op, a, st) }

Outcome(f) == [exc |-> f.resp.exc, value |-> f.resp.value]

Done(p, ops) == req[p].pc = "done" /\ req[p].op \in ops

\* The request in slot p ran alone and started right after a write that
\* returned normally with every cache call answered.
AfterCleanWrite(p) == req[p].solo /\ req[p].after.kind = "write"

\* C1: once a create, update or delete has returned (cache healthy, nothing
\* else in flight), the next nearby or bounding-box search is not served
\* from the cache (cached = false) and returns what the store holds after
\* the write.
C1_SearchAfterWriteIsFresh ==
    \A p \in Procs :
        Done(p, {"nearby", "bbox"}) /\ req[p].resp.exc = "none" /\ AfterCleanWrite(p)
        => /\ ~req[p].resp.cached
           /\ Outcome(req[p]) \in DirectOutcomes(req[p].op, req[p].args, store)

\* A search that found the POI right after a write that had evicted the
\* earlier result of the same kind of search.
C1_Witness ==
    \E p \in Procs :
        /\ Done(p, {"nearby", "bbox"}) /\ req[p].resp.exc = "none" /\ AfterCleanWrite(p)
        /\ Prefix(req[p].op) \in req[p].after.evicted
        /\ req[p].resp.value.count > 0

\* C2: after a write that changed the category counts has returned, the
\* next get_categories is not answered with the list cached before the write.
C2_CategoriesAfterWriteAreFresh ==
    \A p \in Procs :
        Done(p, {"categories"}) /\ AfterCleanWrite(p) /\ req[p].after.catChanged
        => ~req[p].resp.cached

\* C3: a read that runs alone returns (or raises) what the store alone would
\* give; the cache changes nothing but the cached flag.
C3_CacheTransparent ==
    \A p \in Procs :
        Done(p, ReadOps) /\ req[p].solo
        => Outcome(req[p]) \in DirectOutcomes(req[p].op, req[p].args, store)
\* C4: a nearby, bounding-box or get-by-id result served from the cache was
\* cached at most cache_ttl_seconds before; no entry is returned past its
\* expiry.
C4_HitNoOlderThanTtl ==
    \A p \in Procs :
        Done(p, {"nearby", "bbox", "get_poi"}) /\ req[p].resp.cached
        => req[p].hitAge >= 0 /\ req[p].hitAge <= cache_ttl_seconds

\* A stale hit: an entry at least a second old served although the store
\* no longer gives that result.
C4_Witness ==
    \E p \in Procs :
        /\ Done(p, {"nearby", "bbox", "get_poi"}) /\ req[p].resp.cached
        /\ req[p].hitAge >= 1
        /\ Outcome(req[p]) \notin DirectOutcomes(req[p].op, req[p].args, store)

\* C5: in every reachable state the stored token of each POI is the geohash
\* of its stored latitude and longitude.
C5_TokenMatchesCoordinates ==
    \A id \in DOMAIN store :
        store[id].geohash5 =
            geohash2_encode(store[id].lat, store[id].lon, geohash_precision)

\* The ids of the POIs within radius_m of the centre (and of the category).
InRadius(st, a) ==
    { r.id : r \in { r \in Rows(st) :
                       /\ CategoryMatches(r, a.category)
                       /\ ST_DWithin(r.lat, r.lon, a.lat, a.lon, a.radius_m) } }

\* C6: for every radius the route accepts (50 to 50000 m) a nearby search
\* answered from the store returns every POI within the radius: the
\* geohash prefilter excludes none of them.
C6_PrefilterExcludesNothing ==
    \A p \in Procs :
        Done(p, {"nearby"}) /\ req[p].resp.exc = "none" /\ ~req[p].resp.cached
           /\ req[p].solo
           /\ req[p].args.radius_m >= MinRadius /\ req[p].args.radius_m <= MaxRadius
        => { it.id : it \in { req[p].resp.value.items[i] :
                                i \in DOMAIN req[p].resp.value.items } }
             = InRadius(store, req[p].args)

CacheCommands == {"GET", "SETEX", "DEL", "SCAN"}

\* C7: with caching disabled no read is a hit and no request, a write's
\* delete and clear-prefix included, sends a cache command to the backend.
C7_DisabledCacheUntouched ==
    ~cache_enabled
    => \A p \in Procs : /\ ~req[p].resp.cached
                        /\ req[p].cmds \cap CacheCommands = {}

Faulted(f, calls) == \E x \in f.faults : x[1] \in calls

\* C8: a read whose cache get met an unavailable backend or a value that
\* does not deserialize raises nothing the store would not raise and
\* returns the store's result with cached = false.
C8_GetFaultIsMiss ==
    \A p \in Procs :
        Done(p, ReadOps) /\ Faulted(req[p], {"cache_get"})
        => /\ ~req[p].resp.cached
           /\ req[p].solo =>
                Outcome(req[p]) \in DirectOutcomes(req[p].op, req[p].args, store)

\* A search that met a corrupt entry and returned the POI from the store.
C8_Witness ==
    \E p \in Procs :
        /\ Done(p, {"nearby", "bbox"}) /\ <<"cache_get", "corrupt">> \in req[p].faults
        /\ req[p].resp.exc = "none" /\ req[p].resp.value.count > 0

\* What a write that ran alone returns, and the store that shows it committed.
Committed(f) ==
    /\ f.resp.exc = "none"
    /\ IF f.op = "delete"
       THEN f.resp.value = TRUE /\ f.args.id \notin DOMAIN store
       ELSE /\ f.rows # <<>> /\ f.resp.value = f.rows[1]
            /\ f.rows[1].id \in DOMAIN store
            /\ Entity(store[f.rows[1].id]) = f.rows[1]

\* C9: a failing cache set, delete or clear-prefix changes nothing of what
\* the enclosing call returns: the read returns the store's result, the
\* write returns normally and its mutation is committed.
C9_SetDeleteFaultsHarmless ==
    \A p \in Procs :
        Done(p, ReadOps \cup WriteOps) /\ req[p].solo
           /\ Faulted(req[p], {"cache_set", "cache_delete", "clear_prefix"})
        => IF req[p].op \in ReadOps
           THEN /\ ~req[p].resp.cached
                /\ Outcome(req[p]) \in DirectOutcomes(req[p].op, req[p].args, store)
           ELSE Committed(req[p])

\* An update whose cache delete failed returned the updated POI.
C9_Witness ==
    \E p \in Procs :
        /\ Done(p, {"update"}) /\ Faulted(req[p], {"cache_delete"})
        /\ req[p].resp.exc = "none"
        /\ req[p].resp.value.category # req[p].existing[1].category

StoreShows(f) ==
    IF f.op = "delete" THEN f.args.id \notin DOMAIN store
    ELSE /\ f.rows # <<>>
         /\ f.rows[1].id \in DOMAIN store
         /\ Entity(store[f.rows[1].id]) = f.rows[1]

\* C11: in create_poi, update_poi and delete_poi the commit comes before
\* any cache invalidation and the invalidation before the publish; a write
\* whose statement or commit failed invalidates nothing and publishes nothing.
C11_CommitInvalidatePublishOrder ==
    \A p \in Procs :
        req[p].op \in WriteOps
        => /\ Faulted(req[p], {"db"})
                => /\ req[p].cmds \cap (CacheCommands \cup {"PUBLISH"}) = {}
                   /\ req[p].sent = <<>>
           /\ req[p].cmds \cap CacheCommands # {} => StoreShows(req[p])
           /\ "PUBLISH" \in req[p].cmds
                => /\ "SCAN" \in req[p].cmds
                   /\ req[p].op # "create" => "DEL" \in req[p].cmds
                   /\ \A k \in DOMAIN cache : k[2] \notin {"nearby", "bbox"}

\* A write whose commit failed returned with the cached entries left alone.
C11_Witness ==
    \E p \in Procs :
        /\ Done(p, WriteOps) /\ <<"db", "commit">> \in req[p].faults
        /\ req[p].resp.exc = "SQLAlchemyError"
        /\ DOMAIN cache # {}

\* C12: a store failure during a read or a write reaches the caller as
\* DatabaseError (503 DATABASE_ERROR), apart from validation, not-found and
\* generic internal errors.
C12_StoreFailureIsDatabaseError ==
    \A p \in Procs :
        Done(p, ReadOps \cup WriteOps) /\ Faulted(req[p], {"db"})
        => /\ req[p].resp.exc = "DatabaseError"
           /\ http_response(req[p].resp.exc)
                = [status |-> 503, error |-> "DATABASE_ERROR"]

\* C13: update_poi and delete_poi of an id the store does not hold fail
\* with POINotFoundError, leave the store and every cache entry as they
\* were, issue no cache command and publish no event.
C13_AbsentIdFailsCleanly ==
    /\ [](\A p \in Procs :
            Done(p, {"update", "delete"}) /\ req[p].existing = <<>>
               /\ ~Faulted(req[p], {"db"})
            => /\ req[p].resp.exc = "POINotFoundError"
               /\ req[p].cmds = {}
               /\ req[p].sent = <<>>)
    /\ [][\A p \in Procs :
            req[p].pc = "db_select" /\ req'[p].pc # "db_select"
               /\ GET_POI_SQL(store, req[p].args.id) = <<>>
            => /\ req'[p].resp.exc = "POINotFoundError"
               /\ store' = store
               /\ cache' = cache]_vars

\* A delete of an absent id failed while the cache held entries.
C13_Witness ==
    \E p \in Procs :
        /\ Done(p, {"delete"}) /\ req[p].resp.exc = "POINotFoundError"
        /\ req[p].existing = <<>>
        /\ DOMAIN cache # {}

\* C14: once delete_poi(id) has returned, every get_poi(id) that starts
\* later fails with POINotFoundError, also when a get_poi(id) was in flight
\* during the delete.
C14_GetAfterDeleteNotFound ==
    \A p \in Procs :
        Done(p, {"get_poi"}) /\ req[p].solo
           /\ req[p].args.id < nextId /\ req[p].args.id \notin DOMAIN store
        => req[p].resp.exc = "POINotFoundError"

\* The entity an update of the row `existing` with the fields `a` leaves.
Updated(existing, a) ==
    [id       |-> existing.id,
     name     |-> COALESCE(a.name, existing.name, NoneStr),
     category |-> COALESCE(a.category, existing.category, NoneStr),
     lat      |-> COALESCE(a.lat, existing.lat, NoneNum),
     lon      |-> COALESCE(a.lon, existing.lon, NoneNum),
     metadata |-> existing.metadata]

\* C15: update_poi returns the entity as it is after the update, and the
\* get_poi(id) that follows an update_poi(id) with nothing else in flight
\* is not served from the cache and returns that post-update state.
C15_GetAfterUpdateIsFresh ==
    \A p \in Procs :
        /\ Done(p, {"update"}) /\ req[p].solo /\ req[p].resp.exc = "none"
           => /\ req[p].resp.value = Updated(req[p].existing[1], req[p].args)
              /\ Committed(req[p])
        /\ Done(p, {"get_poi"}) /\ AfterCleanWrite(p)
              /\ req[p].after.op = "update" /\ req[p].after.id = req[p].args.id
           => /\ req[p].resp.exc = "none"
              /\ ~req[p].resp.cached
              /\ req[p].resp.value = Entity(store[req[p].args.id])

\* A get_poi that followed the update which had evicted the cached entity
\* returned the new category.
C15_Witness ==
    \E p \in Procs :
        /\ Done(p, {"get_poi"}) /\ AfterCleanWrite(p)
        /\ req[p].after.op = "update" /\ req[p].after.id = req[p].args.id
        /\ "poi" \in req[p].after.evicted
        /\ req[p].resp.exc = "none" /\ req[p].resp.value.category = "restaurant"

\* The fields a client gives to and reads from a POI.
Fields(e) ==
    [name |-> e.name, category |-> e.category, lat |-> e.lat, lon |-> e.lon,
     metadata |-> e.metadata]

\* C16: create_poi of valid fields returns, and the get_poi of the returned
\* id that follows at once yields the name, category, lat, lon and metadata
\* that were given.
C16_CreateGetRoundTrip ==
    \A p \in Procs :
        /\ Done(p, {"create"}) /\ req[p].solo /\ req[p].faults = {}
           => /\ req[p].resp.exc = "none"
              /\ Fields(req[p].resp.value) = Fields(req[p].args)
        /\ Done(p, {"get_poi"}) /\ AfterCleanWrite(p)
              /\ req[p].after.op = "create" /\ req[p].after.id = req[p].args.id
           => /\ req[p].resp.exc = "none"
              /\ Fields(req[p].resp.value) = Fields(req[p].after.args)
\* The parameters of a cached query that are floats.
FloatNames == {"lat", "lon", "min_lat", "min_lon", "max_lat", "max_lon"}

\* Two payloads name the same logical query: the same parameters, the floats
\* equal as numbers.
SameParams(f, g) ==
    /\ DOMAIN f = DOMAIN g
    /\ \A n \in DOMAIN f :
          IF n \in FloatNames THEN float_eq(f[n], g[n]) ELSE f[n] = g[n]

Reverse(seq) == [i \in 1 .. Len(seq) |-> seq[Len(seq) + 1 - i]]

\* The order in which the payload dict of a read was filled does not show in
\* its key.
OrderDoesNotShow ==
    \A p \in Procs :
      req[p].op \in ReadOps =>
        stable_key(Prefix(req[p].op), Reverse(Payload(req[p].op, req[p].args)))
          = stable_key(Prefix(req[p].op), Payload(req[p].op, req[p].args))

\* C17: the cache key is a function of the prefix and the logical query
\* parameters: the order in which the payload dict was filled does not change
\* it, and two queries of one prefix whose parameters are equal once the
\* coordinates are rounded to five decimals have the same key.
C17_KeyIsFunctionOfParams ==
    /\ OrderDoesNotShow
    /\ \A k1, k2 \in DOMAIN cache :
          k1[2] = k2[2] /\ SameParams(k1[3], k2[3]) => k1 = k2

\* The cache key of the read in frame f.
KeyOf(f) == stable_key(Prefix(f.op), Payload(f.op, f.args))

\* C18: with the cache enabled and healthy, a nearby or bounding-box search
\* that hits returns the cached value tagged cached without a statement sent
\* to the store; one that misses sends one statement, then stores what it
\* fetched under its key with the configured ttl, then returns it tagged not
\* cached; and a search misses only when its key is absent, so that the same
\* search repeated while the entry is there hits and returns the items and
\* count the entry was written with.
C18_ReadPathProtocol ==
    \A p \in Procs :
      LET f == req[p]
      IN  f.op \in {"nearby", "bbox"} /\ cache_enabled =>
            /\ f.pc = "db_query" =>
                  KeyOf(f) \notin DOMAIN cache /\ f.queries = 0 /\ f.cmds = {"GET"}
            /\ f.pc = "cache_set" =>
                  KeyOf(f) \notin DOMAIN cache /\ f.queries = 1 /\ f.cmds = {"GET"}
            /\ f.pc = "done" /\ f.resp.exc = "none" =>
                  /\ KeyOf(f) \in DOMAIN cache
                  /\ f.resp.value = orjson_loads(cache[KeyOf(f)].blob)
                  /\ f.resp.value.count = Len(f.resp.value.items)
                  /\ IF f.resp.cached
                     THEN f.queries = 0 /\ f.cmds = {"GET"}
                     ELSE /\ f.queries = 1 /\ f.cmds = {"GET", "SETEX"}
                          /\ cache[KeyOf(f)].ttl = cache_ttl_seconds
                          /\ cache[KeyOf(f)].age = 0

\* A search is answered from an entry that holds a POI.
C18_Witness ==
    /\ cache_enabled
    /\ Done(1, {"nearby", "bbox"})
    /\ req[1].resp.cached
    /\ req[1].resp.value.count > 0

C20_OrderedByDistanceThenId ==
    \A p \in Procs :
      Done(p, {"nearby"}) /\ req[p].resp.exc = "none" =>
        LET items == req[p].resp.value.items
        IN  \A i, j \in DOMAIN items :
              i < j => \/ items[i].dist_m < items[j].dist_m
                       \/ /\ items[i].dist_m = items[j].dist_m
                          /\ items[i].id < items[j].id

\* The first half of C20 alone: non-decreasing dist_m.
OrderedByDistance ==
    \A p \in Procs :
      Done(p, {"nearby"}) /\ req[p].resp.exc = "none" =>
        LET items == req[p].resp.value.items
        IN  \A i, j \in DOMAIN items : i < j => items[i].dist_m <= items[j].dist_m

\* The ids of the items of a cached search result.
CachedIds(k) ==
    LET items == orjson_loads(cache[k].blob).items
    IN  { items[i].id : i \in DOMAIN items }

\* C21: two pages of one nearby search (same centre, radius and category),
\* fetched with limit L at offset 0 and at offset L with no write in between,
\* share no entity id.  Every write clears the cached searches, so the pages
\* cached side by side were fetched with no write in between.
C21_PagesShareNoId ==
    \A k1, k2 \in DOMAIN cache :
      /\ k1[2] = "nearby" /\ k2[2] = "nearby"
      /\ \A n \in {"lat", "lon", "radius_m", "category", "limit"} : k1[3][n] = k2[3][n]
      /\ k1[3].offset = 0 /\ k2[3].offset = k1[3].limit
      => CachedIds(k1) \cap CachedIds(k2) = {}

\* C22: the items a bounding-box search returns, fetched or cached, are in
\* strictly descending order of id.
C22_BboxDescendingId ==
    \A p \in Procs :
      Done(p, {"bbox"}) /\ req[p].resp.exc = "none" =>
        LET items == req[p].resp.value.items
        IN  \A i, j \in DOMAIN items : i < j => items[i].id > items[j].id

\* A bounding-box search is answered from the cache with both POIs.
C22_Witness ==
    /\ Done(1, {"bbox"})
    /\ req[1].resp.cached
    /\ req[1].resp.value.count = 2

\* Every item of a search with a category filter has that category.
CategoryExact ==
    \A p \in Procs :
      LET f == req[p]
      IN  Done(p, {"nearby", "bbox"}) /\ f.resp.exc = "none"
            /\ f.args.category # NoneStr =>
            \A i \in DOMAIN f.resp.value.items :
              f.resp.value.items[i].category = f.args.category

\* C23: every item a nearby or bounding-box search with a category filter
\* returns has that category, and every item a bounding-box search returns
\* lies within the requested bounds, edges included, whether the result was
\* fetched or cached.
C23_ItemsMatchFilterAndBounds ==
    /\ CategoryExact
    /\ \A p \in Procs :
         LET f == req[p]
             a == f.args
         IN  Done(p, {"bbox"}) /\ f.resp.exc = "none" =>
               \A i \in DOMAIN f.resp.value.items :
                 LET it == f.resp.value.items[i]
                 IN  /\ a.min_lat <= it.lat /\ it.lat <= a.max_lat
                     /\ a.min_lon <= it.lon /\ it.lon <= a.max_lon

\* The type of the message that announces a write.
EventType(op) ==
    CASE op = "create" -> "poi_created"
      [] op = "update" -> "poi_updated"
      [] OTHER         -> "poi_deleted"

\* C25: once a create, update or delete that committed while a client was
\* connected and subscribed to channel "poi" has returned, the client has
\* received the poi_created, poi_updated or poi_deleted message of that
\* entity.  (No step of the application delivers anything after the write
\* has returned, so what has not arrived by then never arrives.)
C25_SubscriberGetsEvent ==
    \A s \in Sockets :
      last.kind = "write" /\ Listening(s, "poi") =>
        \E m \in sock[s].events :
          m.type = EventType(last.op) /\ m.poi_id = last.id

\* No client ever receives a broadcast message.
NoEventEver == \A s \in Sockets : sock[s].events = {}

\* How many times the broadcast in progress has sent its message to s.
TimesSent(s) == Cardinality({ i \in DOMAIN bcast.sent_to : bcast.sent_to[i] = s })

\* C26: when broadcast_to_channel has gone through the channel while other
\* sockets subscribed, unsubscribed or disconnected, every socket that was
\* subscribed and connected from its start to its end has been sent the
\* message exactly once.
C26_BroadcastReachesAllWhoStay ==
    bcast.pc = "done" =>
      \A s \in bcast.start \ bcast.left : TimesSent(s) = 1

\* No socket that stays is sent the message of one broadcast twice.
AtMostOnce ==
    \A s \in bcast.start \ bcast.left : TimesSent(s) <= 1

\* The sockets whose endpoint coroutine has registered and not yet ended.
Registered == { s \in Sockets : sock[s].pc \in {"welcome", "receive", "reply"} }

\* C27: once a connection has ended, by the client's disconnect or by an
\* error in its loop, its socket is in neither active_connections nor any
\* channel's subscriber list, and total_connections counts the connections
\* that are still there: it is back at what it was before the connection.
C27_EndedConnectionLeavesNoTrace ==
    /\ \A s \in Sockets :
          sock[s].pc = "closed" =>
            /\ s \notin Elems(active_connections)
            /\ \A c \in DOMAIN subscriptions : s \notin Elems(subscriptions[c])
    /\ total_connections = Cardinality(Registered)

\* The first connection has ended on an error after channels were subscribed
\* to, while the second is still there and subscribed.
C27_Witness ==
    /\ sock[1].pc = "closed" /\ sock[1].dropped
    /\ DOMAIN subscriptions = {"poi", "alerts"}
    /\ Listening(2, "poi")
    /\ total_connections = 1

\* The answer handle_message owes to a client message.
Answer(data) ==
    CASE data.type = "subscribe"   -> [type |-> "subscribed", channel |-> channel_of(data)]
      [] data.type = "unsubscribe" -> [type |-> "unsubscribed", channel |-> channel_of(data)]
      [] data.type = "ping"        -> [type |-> "pong", channel |-> NoneStr]
      [] OTHER                     -> [type |-> "error", channel |-> NoneStr]

\* The answers are the right ones and none is missing or repeated, for the
\* messages that are JSON objects: the first message a client gets is
\* "connected"; the message received is answered by its Answer; a client
\* whose messages have all been handled has got one answer for each.
ObjectsAnswered ==
    \A s \in Sockets :
      LET k == sock[s]
      IN  /\ k.first # NoMsg => k.first[1].type = "connected"
          /\ k.handling # NoMsg => k.pc = "reply" /\ k.reply = <<Answer(k.handling[1])>>
          /\ k.client = "open" =>
                /\ k.owed >= 0
                /\ k.pc = "receive" /\ k.inq = NoMsg => k.owed = 0 /\ k.first # NoMsg

\* C28: the first message a client gets after connecting is "connected";
\* after that every client message gets exactly one answer (subscribed or
\* unsubscribed with the channel, pong, error for any other type) and the
\* connection stays open.
C28_OneAnswerPerMessage ==
    /\ ObjectsAnswered
    /\ \A s \in Sockets : ~sock[s].dropped

\* C29: when update_poi races with delete_poi of the same id (the delete
\* commits between the update's existence check and its UPDATE), the update
\* returns the updated entity or fails with POINotFoundError, never with an
\* uncategorized error.
C29_UpdateRacingDeleteIsCategorized ==
    \A p \in Procs :
      req[p].op = "update" /\ req[p].pc = "done" =>
         req[p].resp.exc \in {"none", "POINotFoundError"}

\* An update_poi that no other call overlaps returns the entity or raises
\* POINotFoundError.
UpdateAloneIsCategorized ==
    \A p \in Procs :
      req[p].op = "update" /\ req[p].pc = "done" /\ req[p].solo =>
         req[p].resp.exc \in {"none", "POINotFoundError"}

\* The delete_poi calls for id that have returned True and not been taken
\* by their callers yet, and those among them that published "deleted".
DeletedOk(id) ==
    { p \in Procs : /\ req[p].op = "delete" /\ req[p].pc = "done"
                    /\ req[p].args.id = id /\ req[p].resp.exc = "none" }

DeletedPublished(id) ==
    { p \in Procs : /\ req[p].op = "delete" /\ req[p].args.id = id
                    /\ req[p].sent # <<>> }

\* C30: of the delete_poi calls that run side by side for one id, at most
\* one returns success and at most one "deleted" event is published; the
\* others fail with POINotFoundError.
C30_OneDeleteWins ==
    \A id \in 1..MaxId :
      /\ Cardinality(DeletedOk(id)) <= 1
      /\ Cardinality(DeletedPublished(id)) <= 1

\* A delete_poi that finds no row at its existence check raises
\* POINotFoundError and publishes nothing.
LateDeleteNotFound ==
    \A p \in Procs :
      req[p].op = "delete" /\ req[p].pc = "done" /\ req[p].existing = <<>> =>
         req[p].resp.exc = "POINotFoundError" /\ req[p].sent = <<>>

\* The keys of the cache derived with the prefix.
KeysOf(c, prefix) == { k \in DOMAIN c : k[1] = "geosearch" /\ k[2] = prefix }

\* The step that ends cache_clear_prefix(prefix) in slot p: the scan that
\* found nothing, or the delete.
ClearEnds(p) ==
    /\ req[p].pc \in {"scan_nearby", "del_nearby", "scan_bbox", "del_bbox"}
    /\ req'[p].pc = AfterClear(req[p].pc)

\* C31: cache_clear_prefix(prefix) removes every entry whose key was derived
\* with the prefix and leaves every entry derived with another prefix as it
\* was (clearing "nearby" and "bbox" removes no "poi" or "categories" entry).
C31_ClearPrefixExact ==
    [][\A p \in Procs :
         ClearEnds(p) =>
            cache' = Without(cache, KeysOf(cache, ClearPrefix(req[p].pc)))]_vars

\* A write has cleared "nearby" entries and a "categories" entry is still
\* in the cache.
C31_Witness ==
    \E p \in Procs :
      /\ req[p].pc = "scan_bbox" /\ "nearby" \in req[p].evicted
      /\ KeysOf(cache, "nearby") = {}
      /\ KeysOf(cache, "categories") # {}

\* The UPDATE of the update_poi in slot p and its commit.
UpdateCommits(p) ==
    /\ req[p].op = "update" /\ req[p].pc = "db_write"
    /\ req'[p].pc # "db_write"
    /\ req[p].args.id \in DOMAIN store

\* C32: update_poi changes only the fields supplied in the partial update
\* (and updated_at): id, created_at and every field not supplied keep their
\* stored values, the spatial token is left as it was unless lat or lon is
\* supplied, and no other row changes.
C32_UpdateChangesOnlySupplied ==
    [][\A p \in Procs :
         UpdateCommits(p) =>
            LET a   == req[p].args
                old == store[a.id]
                new == store'[a.id]
            IN  /\ DOMAIN store' = DOMAIN store
                /\ \A j \in DOMAIN store \ {a.id} : store'[j] = store[j]
                /\ new.id = old.id /\ new.created_at = old.created_at
                /\ new.name     = IF a.name = NoneStr THEN old.name ELSE a.name
                /\ new.category = IF a.category = NoneStr THEN old.category
                                  ELSE a.category
                /\ new.lat = IF a.lat = NoneNum THEN old.lat ELSE a.lat
                /\ new.lon = IF a.lon = NoneNum THEN old.lon ELSE a.lon
                /\ a.metadata = NoneMeta => new.metadata = old.metadata
                /\ a.lat = NoneNum /\ a.lon = NoneNum =>
                      new.geohash5 = old.geohash5]_vars

\* POI 2, created after POI 1 and given metadata and a new position before,
\* has just been renamed by an update that supplied nothing else.
C32_Witness ==
    /\ req[1].op = "update" /\ req[1].pc = "cache_delete"
    /\ req[1].args = [NoArgs EXCEPT !.id = 2, !.name = "Renamed"]
    /\ store[2].name = "Renamed" /\ store[2].lat = FarLat
    /\ store[2].lon = HoustonLon
    /\ store[2].metadata # EmptyMeta
    /\ store[2].created_at = 2 /\ store[2].updated_at > 2
    /\ store[2].geohash5 # store[1].geohash5

\* C33: a nearby or bounding-box search answered from the cache returns what
\* the store gives for the request's own, unrounded parameters: requests
\* that derive the same cache key have the same store result.
C33_HitIsOwnStoreResult ==
    \A p \in Procs :
      /\ Done(p, {"nearby", "bbox"}) /\ req[p].resp.exc = "none"
      /\ req[p].resp.cached /\ req[p].solo
      => Outcome(req[p]) \in DirectOutcomes(req[p].op, req[p].args, store)

\* A search that was not answered from the cache returns what the store
\* gives for its parameters.
MissIsOwnStoreResult ==
    \A p \in Procs :
      /\ Done(p, {"nearby", "bbox"}) /\ req[p].resp.exc = "none"
      /\ ~req[p].resp.cached /\ req[p].solo
      => Outcome(req[p]) \in DirectOutcomes(req[p].op, req[p].args, store)

\* The store failed at a round trip of the request in frame f.
DbFailed(f) == \E stage \in {"execute", "commit"} : <<"db", stage>> \in f.faults

\* C34: if the store query fails during a read that missed the cache, no
\* entry is written for its key and the cache is left as it was before the
\* read: no step of a read changes the cache but its cache_set, and a read
\* whose query failed ends there with an error, its key absent, without
\* having sent a SETEX.
C34_FailedReadLeavesCache ==
    [][\A p \in Procs :
         /\ req[p].op \in ReadOps /\ (req[p].pc # "cache_set" \/ DbFailed(req[p]))
              => cache' = cache
         /\ req'[p].op \in ReadOps /\ DbFailed(req'[p])
              => /\ req'[p].pc = "done" /\ req'[p].resp.exc = "SQLAlchemyError"
                 /\ "SETEX" \notin req'[p].cmds
                 /\ KeyOf(req'[p]) \notin DOMAIN cache']_vars

\* A search missed and its query failed, while the cache held the result of
\* another read.
C34_Witness ==
    /\ Done(1, {"nearby", "bbox"}) /\ DbFailed(req[1])
    /\ "GET" \in req[1].cmds
    /\ DOMAIN cache # {} /\ KeyOf(req[1]) \notin DOMAIN cache

\* C35: every nearby_search and bbox_search result, served from the cache or
\* from the store, has count equal to the number of items it contains.
C35_CountIsNumberOfItems ==
    \A p \in Procs :
      Done(p, {"nearby", "bbox"}) /\ req[p].resp.exc = "none" =>
         req[p].resp.value.count = Len(req[p].resp.value.items)

\* A search answered from the cache with one item.
C35_Witness ==
    \E p \in Procs :
      /\ Done(p, {"nearby", "bbox"}) /\ req[p].resp.cached
      /\ Len(req[p].resp.value.items) = 1

\* A socket appears at most once in a channel's subscriber list.
SubscribedOnce ==
    \A c \in DOMAIN subscriptions :
      \A i, j \in DOMAIN subscriptions[c] :
        subscriptions[c][i] = subscriptions[c][j] => i = j

\* C36: in every reachable state a socket appears at most once in any
\* channel's subscriber list (subscribe is idempotent), so that one
\* broadcast_to_channel call sends at most one copy of its message to each
\* subscriber.
C36_OneCopyPerSubscriber ==
    /\ SubscribedOnce
    /\ \A s \in Sockets : TimesSent(s) <= 1

\* C37: in every reachable state of the connection manager, every socket in
\* a channel's subscriber list is also in active_connections, whatever the
\* interleaving of connect, subscribe, unsubscribe, broadcast (with send
\* failures) and disconnect.
C37_SubscribersAreConnected ==
    \A c \in DOMAIN subscriptions :
      Elems(subscriptions[c]) \subseteq Elems(active_connections)

\* The step in which broadcast_to_channel returns.
BroadcastEnds == bcast.pc # "done" /\ bcast'.pc = "done"

\* The sockets a send of the broadcast failed for are in neither
\* active_connections nor any channel's subscriber list.
FailedAreRemoved ==
    \A s \in Elems(bcast.disconnected) :
      /\ s \notin Elems(active_connections)
      /\ \A c \in DOMAIN subscriptions : s \notin Elems(subscriptions[c])

\* The recipients that stayed connected and subscribed through the
\* broadcast, and for which no send failed, have received the message.
OthersReceived ==
    \A s \in (bcast.start \ bcast.left) \ Elems(bcast.disconnected) :
      TimesSent(s) >= 1

\* When a broadcast returns, the sockets a send failed for have been removed.
FailedAreRemovedAtEnd == [][BroadcastEnds => FailedAreRemoved']_vars

\* C38: if sending to a socket fails during a broadcast, that socket is out
\* of active_connections and of every channel list by the end of the
\* broadcast, and every other recipient that stayed connected and subscribed
\* has received the message.
C38_FailedSendHarmsNoOther ==
    [][BroadcastEnds /\ bcast'.disconnected # <<>> =>
         FailedAreRemoved' /\ OthersReceived']_vars

\* When no socket left the channel's list during the broadcast, a failed
\* send takes the message from no other recipient.
FailedSendAloneHarmsNoOther ==
    [][BroadcastEnds /\ bcast'.disconnected # <<>> /\ bcast'.left = {} =>
         OthersReceived']_vars

\* The requests of the client that went to the application at a time from
\* first to last: all of them, and those the limiter counted.
ForwardedIn(client_id, first, final) ==
    { i \in DOMAIN forwarded :
        /\ forwarded[i].client_id = client_id
        /\ first <= forwarded[i].time /\ forwarded[i].time <= final }

AdmittedIn(client_id, first, final) ==
    { i \in ForwardedIn(client_id, first, final) : forwarded[i].limited }

ClientIds == { forwarded[i].client_id : i \in DOMAIN forwarded }

\* How many times the limiter holds the time t for the client.
Held(client_id, t) ==
    Cardinality({ i \in DOMAIN requests[client_id] : requests[client_id][i] = t })

\* Of the requests the limiter counts, at most max_requests per client go to
\* the application within any window_seconds seconds.
AdmittedWithinLimit ==
    \A client_id \in ClientIds, t \in 0..MaxClock :
      Cardinality(AdmittedIn(client_id, t, t + window_seconds - 1)) <= max_requests

\* Every time the limiter holds is the time of a request that went to the
\* application.
HeldAreAdmitted ==
    \A client_id \in DOMAIN requests, t \in 0..MaxClock :
      Held(client_id, t) <= Cardinality(AdmittedIn(client_id, t, t))

\* A request answered 429 had max_requests requests of its client forwarded
\* within the window_seconds before it.
RejectedWhenFull ==
    response.status = 429 =>
      Cardinality(AdmittedIn(response.client_id,
                             response.time - window_seconds + 1,
                             response.time)) >= max_requests

\* The step in which a request is answered 429.
Rejects ==
    /\ response'.status = 429
    /\ <<response, requests>>' # <<response, requests>>

\* C39 as it holds, for the requests the limiter counts (it is enabled and
\* the path is none of the health checks): per client identifier at most
\* max_requests of them go to the application within any window_seconds
\* seconds; a request over the limit is answered 429 without going to the
\* application and without its time being held, and only when max_requests
\* requests of the client were forwarded in the window before it.
C39_LimitOnCountedRequests ==
    [][/\ rate_limit_enabled => AdmittedWithinLimit'
       /\ HeldAreAdmitted' /\ RejectedWhenFull'
       /\ Rejects => forwarded' = forwarded]_vars

\* A client that used up its limit, was answered 429 and was let in again
\* when the window had passed.
C39_Witness ==
    \E client_id \in ClientIds :
      /\ rate_limit_enabled
      /\ response.status = 429 /\ response.client_id = client_id
      /\ clock = response.time
      /\ Cardinality(AdmittedIn(client_id, 0, clock - window_seconds)) > 0
      /\ Len(requests[client_id]) = max_requests

\* C39: with the limiter enabled, for each client identifier at most
\* max_requests requests are forwarded to the application within any window
\* of window_seconds; a request over the limit is answered 429 without being
\* forwarded and without being recorded.
C39_AtMostMaxForwarded ==
    [][/\ rate_limit_enabled =>
            (\A client_id \in ClientIds, t \in 0..MaxClock :
               Cardinality(ForwardedIn(client_id, t, t + window_seconds - 1))
                  <= max_requests)'
       /\ HeldAreAdmitted' /\ RejectedWhenFull'
       /\ Rejects => forwarded' = forwarded]_vars

====
